---------------------------- MODULE Spec2Model ----------------------------
(***************************************************************************)
(* A model of the CHIP-8 emulator core (charithe/chip8):                   *)
(*   src/src/emulator/interpreter.rs     the instruction decoder           *)
(*   src/src/emulator/display.rs         the framebuffer                   *)
(*   src/src/emulator/implementation.rs  the Emulator and its step()       *)
(* The Emulator is a record with the fields of the Rust struct; every      *)
(* method is an operator from the receiver (self) and the arguments to the *)
(* receiver after the call and the value returned.                         *)
(***************************************************************************)
EXTENDS Integers, Sequences, FiniteSets, TLC

VARIABLES
    emu,              \* the Emulator owned by the driver (NoEmulator: none)
    rom_data,         \* the byte stream handed to Emulator::new
    call,             \* the last public call made on the Emulator
    result,           \* what that call returned
    overflow_checks,  \* build profile: TRUE iff integer overflow panics
    fatal,            \* history: some step() has returned an Err
    ins,              \* harness: the Instruction word
    op,               \* harness: what interpret() returned for it
    trail,            \* harness: the instructions executed last, newest first,
                      \* each with the Emulator it was executed on
    driver            \* the driver loop that owns the Emulator (NoDriver:
                      \* the calls are made by an arbitrary client)

vars == <<emu, rom_data, call, result, overflow_checks, fatal, ins, op, trail, driver>>

NoDriver == [kind |-> "none"]

-----------------------------------------------------------------------------
(* Program constants.                                                      *)

REG_COUNT == 16
MEM_SIZE == 4096
MEM_START == 512
STACK_SIZE == 16
WIDTH == 64
HEIGHT == 32
SPRITE_WIDTH == 8
TOTAL_PIXELS == 2048
KEY_COUNT == 16
FONT_LEN == 80

U8 == 256
U16 == 65536

FONT_SET ==
    << \hF0, \h90, \h90, \h90, \hF0,
       \h20, \h60, \h20, \h20, \h70,
       \hF0, \h10, \hF0, \h80, \hF0,
       \hF0, \h10, \hF0, \h10, \hF0,
       \h90, \h90, \hF0, \h10, \h10,
       \hF0, \h80, \hF0, \h10, \hF0,
       \hF0, \h80, \hF0, \h90, \hF0,
       \hF0, \h10, \h20, \h40, \h40,
       \hF0, \h90, \hF0, \h90, \hF0,
       \hF0, \h90, \hF0, \h10, \hF0,
       \hF0, \h90, \hF0, \h90, \h90,
       \hE0, \h90, \hE0, \h90, \hE0,
       \hF0, \h80, \h80, \h80, \hF0,
       \hE0, \h90, \h90, \h90, \hE0,
       \hF0, \h80, \hF0, \h80, \hF0,
       \hF0, \h80, \hF0, \h80, \h80 >>

-----------------------------------------------------------------------------
(* Machine arithmetic on unsigned integers.                                *)

RECURSIVE BitAnd(_, _)
BitAnd(a, b) ==
    IF a = 0 \/ b = 0 THEN 0
    ELSE (a % 2) * (b % 2) + 2 * BitAnd(a \div 2, b \div 2)

RECURSIVE BitOr(_, _)
BitOr(a, b) ==
    IF a = 0 THEN b
    ELSE IF b = 0 THEN a
    ELSE (IF a % 2 = 1 \/ b % 2 = 1 THEN 1 ELSE 0) + 2 * BitOr(a \div 2, b \div 2)

RECURSIVE BitXor(_, _)
BitXor(a, b) ==
    IF a = 0 THEN b
    ELSE IF b = 0 THEN a
    ELSE ((a + b) % 2) + 2 * BitXor(a \div 2, b \div 2)

ShiftRight(a, n) == a \div (2 ^ n)

(* Values of Result<T> and of a panicking call.                            *)
Ok(v) == [kind |-> "Ok", val |-> v]
Err(e) == [kind |-> "Err", err |-> e]
Panic == [kind |-> "Panic"]
NotCalled == [kind |-> "NotCalled"]

(* common::Error, the variants the core raises.                            *)
InvalidROM == [error |-> "InvalidROM"]
UnknownInstruction(w) == [error |-> "UnknownInstruction", word |-> w]
StackOverflow == [error |-> "StackOverflow"]
StackUnderflow == [error |-> "StackUnderflow"]

-----------------------------------------------------------------------------
(* interpreter.rs: Instruction(u16) and its decoding into an Op.           *)

second_nibble(w) == ShiftRight(BitAnd(w, \h0F00), 8)
(* A slip: the masked nibble is not shifted down.                          *)
third_nibble_unshifted(w) == BitAnd(w, \h00F0)

third_nibble(w) == ShiftRight(BitAnd(w, \h00F0), 4)
last_byte(w) == BitAnd(w, \h00FF)
addr(w) == BitAnd(w, \h0FFF)

Op0(name) == [name |-> name]
OpR(name, w) == [name |-> name, reg |-> second_nibble(w)]
OpRR(name, w) == [name |-> name, reg1 |-> second_nibble(w), reg2 |-> third_nibble(w)]
OpRV(name, w) == [name |-> name, reg |-> second_nibble(w), val |-> last_byte(w)]
OpA(name, w) == [name |-> name, addr |-> addr(w)]

interpret_0(w) ==
    CASE w = \h00E0 -> Ok(Op0("CLS"))
      [] w = \h00EE -> Ok(Op0("RET"))
      [] OTHER -> Ok(OpA("SYS", w))

interpret_8(w) ==
    LET sel == BitAnd(w, \h000F) IN
    CASE sel = \h0 -> Ok(OpRR("LDR", w))
      [] sel = \h1 -> Ok(OpRR("OR", w))
      [] sel = \h2 -> Ok(OpRR("AND", w))
      [] sel = \h3 -> Ok(OpRR("XOR", w))
      [] sel = \h4 -> Ok(OpRR("ADDR", w))
      [] sel = \h5 -> Ok(OpRR("SUB", w))
      [] sel = \h6 -> Ok(OpR("SHR", w))
      [] sel = \h7 -> Ok(OpRR("SUBN", w))
      [] sel = \hE -> Ok(OpR("SHL", w))
      [] OTHER -> Err(UnknownInstruction(w))

interpret_9(w) ==
    LET sel == BitAnd(w, \h000F) IN
    CASE sel = \h0 -> Ok(OpRR("SNER", w))
      [] OTHER -> Err(UnknownInstruction(w))

interpret_D(w) ==
    LET n == BitAnd(w, \h000F) IN
    Ok([name |-> "DRW", reg1 |-> second_nibble(w),
        reg2 |-> third_nibble(w), val |-> n])

interpret_E(w) ==
    LET sel == BitAnd(w, \h00FF) IN
    CASE sel = \h9E -> Ok(OpR("SKP", w))
      [] sel = \hA1 -> Ok(OpR("SKNP", w))
      [] OTHER -> Err(UnknownInstruction(w))

interpret_F(w) ==
    LET sel == BitAnd(w, \h00FF) IN
    CASE sel = \h07 -> Ok(OpR("CPDT", w))
      [] sel = \h0A -> Ok(OpR("LDKP", w))
      [] sel = \h15 -> Ok(OpR("LDDT", w))
      [] sel = \h18 -> Ok(OpR("LDST", w))
      [] sel = \h1E -> Ok(OpR("ADDI", w))
      [] sel = \h29 -> Ok(OpR("LDIS", w))
      [] sel = \h33 -> Ok(OpR("LDIB", w))
      [] sel = \h55 -> Ok(OpR("LDIR", w))
      [] sel = \h65 -> Ok(OpR("LDIM", w))
      [] OTHER -> Err(UnknownInstruction(w))

interpret(w) ==
    LET family == BitAnd(w, \hF000) IN
    CASE family = \h0000 -> interpret_0(w)
      [] family = \h1000 -> Ok(OpA("JP", w))
      [] family = \h2000 -> Ok(OpA("CALL", w))
      [] family = \h3000 -> Ok(OpRV("SE", w))
      [] family = \h4000 -> Ok(OpRV("SNE", w))
      [] family = \h5000 -> Ok(OpRR("SER", w))
      [] family = \h6000 -> Ok(OpRV("LD", w))
      [] family = \h7000 -> Ok(OpRV("ADD", w))
      [] family = \h8000 -> interpret_8(w)
      [] family = \h9000 -> interpret_9(w)
      [] family = \hA000 -> Ok(OpA("LDI", w))
      [] family = \hB000 -> Ok(OpA("JPREL", w))
      [] family = \hC000 -> Ok(OpRV("RND", w))
      [] family = \hD000 -> interpret_D(w)
      [] family = \hE000 -> interpret_E(w)
      [] family = \hF000 -> interpret_F(w)
      [] OTHER -> Err(UnknownInstruction(w))

(* A slip: the tens digit is not reduced below 10.                         *)
to_bcd_tens_unreduced(v) == << v \div 100, v \div 10, v % 10 >>

to_bcd(v) == << v \div 100, (v % 100) \div 10, (v % 100) % 10 >>

-----------------------------------------------------------------------------
(* display.rs: Screen, a row-major array of TOTAL_PIXELS cells.            *)

Sprite_new(x, y, data) == [x |-> x, y |-> y, data |-> data]

Screen_default == [pixels |-> [k \in 0..(TOTAL_PIXELS - 1) |-> 0]]

clear(screen) == [screen EXCEPT !.pixels = [k \in DOMAIN screen.pixels |-> 0]]

calc_index(base_x, base_y, x, y) ==
    LET y_offset == (base_y + y) * WIDTH
        x_offset == base_x + x
    IN  x_offset + y_offset

(* The two nested loops of draw.  Position k is row h = k div width,       *)
(* column w = k mod width; the loops visit the positions in the order of   *)
(* k and return at the first lit position whose index is past the array.   *)
(* No two positions of one draw share a cell (w < width <= 8 < WIDTH), so  *)
(* each visited lit position tests and toggles a cell not yet touched.     *)
sprite_pixel(sprite, width, k) ==
    BitAnd(sprite.data[(k \div width) + 1], ShiftRight(\h80, k % width))

sprite_index(sprite, width, k) ==
    calc_index(sprite.x, sprite.y, k % width, k \div width)

visited(sprite, width) ==
    LET lit == { k \in 0..(Len(sprite.data) * width - 1) :
                   sprite_pixel(sprite, width, k) # 0 }
        past == { k \in lit : sprite_index(sprite, width, k) >= TOTAL_PIXELS }
    IN  { k \in lit : \A j \in past : k < j }

(* A slip: the collision test reads the cell after it was toggled.         *)
draw_loop_test_after_toggle(sprite, width, cells) ==
    LET targets == { sprite_index(sprite, width, k) : k \in visited(sprite, width) }
    IN  [pixels |-> [c \in targets |-> BitXor(cells[c], 1)] @@ cells,
         vf |-> IF \E c \in targets : BitXor(cells[c], 1) = 1 THEN 1 ELSE 0]

(* A slip: a lit sprite bit sets the cell instead of toggling it.          *)
draw_loop_sets(sprite, width, cells) ==
    LET targets == { sprite_index(sprite, width, k) : k \in visited(sprite, width) }
    IN  [pixels |-> [c \in targets |-> 1] @@ cells,
         vf |-> IF \E c \in targets : cells[c] = 1 THEN 1 ELSE 0]

draw_loop(sprite, width, cells) ==
    LET targets == { sprite_index(sprite, width, k) : k \in visited(sprite, width) }
    IN  [pixels |-> [c \in targets |-> BitXor(cells[c], 1)] @@ cells,
         vf |-> IF \E c \in targets : cells[c] = 1 THEN 1 ELSE 0]

(* Screen::draw returns the screen after the call and Option<u8>.          *)
None == [some |-> FALSE]
Some(v) == [some |-> TRUE, val |-> v]

(* A slip: the sprite is always taken eight columns wide.                  *)
draw_unclipped(screen, sprite) ==
    IF sprite.x >= WIDTH \/ sprite.y >= HEIGHT
      THEN [screen |-> screen, ret |-> None]
      ELSE
        LET out == draw_loop(sprite, SPRITE_WIDTH, screen.pixels)
        IN  [screen |-> [screen EXCEPT !.pixels = out.pixels],
             ret |-> Some(out.vf)]

(* A slip: the origin is rejected only when both coordinates are off.      *)
draw_rejects_both(screen, sprite) ==
    IF sprite.x >= WIDTH /\ sprite.y >= HEIGHT
      THEN [screen |-> screen, ret |-> None]
      ELSE
        LET width == IF sprite.x >= (WIDTH - SPRITE_WIDTH)
                       THEN WIDTH - sprite.x
                       ELSE SPRITE_WIDTH
            out == draw_loop(sprite, width, screen.pixels)
        IN  [screen |-> [screen EXCEPT !.pixels = out.pixels],
             ret |-> Some(out.vf)]

draw(screen, sprite) ==
    IF sprite.x >= WIDTH \/ sprite.y >= HEIGHT
      THEN [screen |-> screen, ret |-> None]
      ELSE
        LET width == IF sprite.x >= (WIDTH - SPRITE_WIDTH)
                       THEN WIDTH - sprite.x
                       ELSE SPRITE_WIDTH
            out == draw_loop(sprite, width, screen.pixels)
        IN  [screen |-> [screen EXCEPT !.pixels = out.pixels],
             ret |-> Some(out.vf)]

(* A slip: the column and the row of a cell are swapped.                   *)
pixels_transposed(screen) ==
    { [x |-> k \div WIDTH, y |-> k % WIDTH, value |-> screen.pixels[k]] :
        k \in { j \in DOMAIN screen.pixels : screen.pixels[j] # 0 } }

(* Screen::pixels: one Pixel per cell that is not 0.  The Vec is in cell   *)
(* order; the model keeps the set of its elements.                         *)
pixels(screen) ==
    { [x |-> k % WIDTH, y |-> k \div WIDTH, value |-> screen.pixels[k]] :
        k \in { j \in DOMAIN screen.pixels : screen.pixels[j] # 0 } }

-----------------------------------------------------------------------------
(* implementation.rs: the Emulator.  A method that takes &mut self is an   *)
(* operator giving [self |-> the receiver after the call, ret |-> the      *)
(* value returned].  StepResult is Result<Option<Step>>; every Ok the code *)
(* returns is Ok(Some(step)), modelled as Ok(step).                        *)

Nop == [step |-> "Nop"]
Draw(p) == [step |-> "Draw", pixels |-> p]
WaitForKey == [step |-> "WaitForKey"]
Exit == [step |-> "Exit"]

NoEmulator == [none |-> TRUE]

Return(self, ret) == [self |-> self, ret |-> ret]

unload_rom(self) ==
    [self EXCEPT
       !.memory = [a \in DOMAIN self.memory |->
                     IF a \in MEM_START..(MEM_SIZE - 1) THEN 0 ELSE self.memory[a]],
       !.rom_end = MEM_START]

(* A slip: the bytes are stored but rom_end is left where unload_rom put   *)
(* it.                                                                     *)
load_rom_without_end(self, data) ==
    LET unloaded == unload_rom(self)
        written == [unloaded EXCEPT
                      !.memory = [a \in DOMAIN unloaded.memory |->
                                    IF a \in MEM_START..(MEM_START + Len(data) - 1)
                                      THEN data[a - MEM_START + 1]
                                      ELSE unloaded.memory[a]]]
    IN  IF Len(data) + MEM_START >= MEM_SIZE
          THEN Return(written, Err(InvalidROM))
          ELSE Return(written, Ok(<<>>))

(* load_rom's loop over rom_data.bytes(): after the k-th byte is stored at *)
(* memory[(k - 1) + MEM_START], i is k and the bound is tested.  The loop  *)
(* returns Err at the first k for which the test holds.                    *)
load_rom(self, data) ==
    LET unloaded == unload_rom(self)
        overrun == { k \in 1..Len(data) : k + MEM_START >= MEM_SIZE }
        stored == IF overrun = {} THEN Len(data)
                  ELSE CHOOSE k \in overrun : \A j \in overrun : k <= j
        written == [unloaded EXCEPT
                      !.memory = [a \in DOMAIN unloaded.memory |->
                                    IF a \in MEM_START..(MEM_START + stored - 1)
                                      THEN data[a - MEM_START + 1]
                                      ELSE unloaded.memory[a]]]
    IN  IF overrun # {}
          THEN Return(written, Err(InvalidROM))
          ELSE Return([written EXCEPT !.rom_end = Len(data) + MEM_START], Ok(<<>>))

Emulator_new(data) ==
    LET fresh == [vx |-> [r \in 0..(REG_COUNT - 1) |-> 0],
                  dt |-> 0,
                  st |-> 0,
                  sp |-> 0,
                  i |-> 0,
                  pc |-> MEM_START,
                  memory |-> [a \in 0..(MEM_SIZE - 1) |-> 0],
                  stack |-> [k \in 0..(STACK_SIZE - 1) |-> 0],
                  screen |-> Screen_default,
                  keyboard |-> [k \in 0..(KEY_COUNT - 1) |-> FALSE],
                  rom_end |-> 0]
        fonts == [fresh EXCEPT
                    !.memory = [a \in DOMAIN fresh.memory |->
                                  IF a < FONT_LEN THEN FONT_SET[a + 1]
                                  ELSE fresh.memory[a]]]
        loaded == load_rom(fonts, data)
    IN  IF loaded.ret.kind = "Err"
          THEN Return(NoEmulator, loaded.ret)
          ELSE Return(loaded.self, Ok(<<>>))

(* A slip: only the upper bound of the program is tested.                  *)
next_instruction_no_lower_bound(self) ==
    IF self.pc >= self.rom_end
      THEN Return(self, None)
      ELSE
        LET word == self.memory[self.pc] * 256 + self.memory[self.pc + 1]
        IN  Return([self EXCEPT !.pc = @ + 2], Some(word))

next_instruction(self) ==
    IF (self.pc < MEM_START) \/ (self.pc >= self.rom_end)
      THEN Return(self, None)
      ELSE
        LET word == self.memory[self.pc] * 256 + self.memory[self.pc + 1]
        IN  Return([self EXCEPT !.pc = @ + 2], Some(word))

key_press(self, key) == [self EXCEPT !.keyboard[key] = TRUE]

(* A slip: releasing one key clears the whole keypad.                      *)
key_release_clears_all(self, key) ==
    [self EXCEPT !.keyboard = [k \in DOMAIN self.keyboard |-> FALSE]]

key_release(self, key) == [self EXCEPT !.keyboard[key] = FALSE]

(* A slip: the scan returns the last pressed key, not the first.           *)
pressed_key_last(self) ==
    LET down == { k \in DOMAIN self.keyboard : self.keyboard[k] = TRUE }
    IN  IF down = {} THEN None
        ELSE Some(CHOOSE k \in down : \A j \in down : k >= j)

pressed_key(self) ==
    LET down == { k \in DOMAIN self.keyboard : self.keyboard[k] = TRUE }
    IN  IF down = {} THEN None
        ELSE Some(CHOOSE k \in down : \A j \in down : k <= j)

(* A slip: the bound is tested with > for >=.                              *)
push_to_stack_off_by_one(self, val) ==
    IF self.sp > STACK_SIZE
      THEN Return(self, Err(StackOverflow))
      ELSE Return([self EXCEPT !.stack[self.sp] = val, !.sp = @ + 1], Ok(<<>>))

push_to_stack(self, val) ==
    IF self.sp >= STACK_SIZE
      THEN Return(self, Err(StackOverflow))
      ELSE Return([self EXCEPT !.stack[self.sp] = val, !.sp = @ + 1], Ok(<<>>))

pop_from_stack(self) ==
    IF self.sp = 0
      THEN Return(self, Err(StackUnderflow))
      ELSE Return([self EXCEPT !.sp = @ - 1], Ok(self.stack[self.sp - 1]))

is_pressed(self, key) ==
    IF key \in DOMAIN self.keyboard THEN Ok(self.keyboard[key]) ELSE Panic

do_add(self, reg, val) ==
    LET a == self.vx[reg]
        b == val
    IN  Return([self EXCEPT !.vx[reg] = (a + b) % U8], Ok(Nop))

(* self.i += vx as u16: an overflowing add panics when the build checks    *)
(* overflow and wraps otherwise.                                           *)
do_addi(self, reg) ==
    LET sum == self.i + self.vx[reg]
    IN  IF sum >= U16 /\ overflow_checks
          THEN Return(self, Panic)
          ELSE Return([self EXCEPT !.i = sum % U16], Ok(Nop))

(* A slip: the carry is raised on overflow but never lowered.               *)
do_addr_sticky_carry(self, reg1, reg2) ==
    LET sum == self.vx[reg1] + self.vx[reg2]
        v == sum % U8
        overflow == sum >= U8
        s1 == [self EXCEPT !.vx[reg1] = v]
    IN  Return(IF overflow THEN [s1 EXCEPT !.vx[15] = 1] ELSE s1, Ok(Nop))

do_addr(self, reg1, reg2) ==
    LET sum == self.vx[reg1] + self.vx[reg2]
        v == sum % U8
        overflow == sum >= U8
        s1 == [self EXCEPT !.vx[reg1] = v]
    IN  Return([s1 EXCEPT !.vx[15] = IF overflow THEN 1 ELSE 0], Ok(Nop))

do_and(self, reg1, reg2) ==
    Return([self EXCEPT !.vx[reg1] = BitAnd(@, self.vx[reg2])], Ok(Nop))

(* A slip: the address pushed is that of the CALL itself.                   *)
do_call_pushes_own_address(self, addr_) ==
    LET pushed == push_to_stack(self, self.pc - 2)
    IN  IF pushed.ret.kind = "Err"
          THEN Return(pushed.self, pushed.ret)
          ELSE Return([pushed.self EXCEPT !.pc = addr_], Ok(Nop))

do_call(self, addr_) ==
    LET pushed == push_to_stack(self, self.pc)
    IN  IF pushed.ret.kind = "Err"
          THEN Return(pushed.self, pushed.ret)
          ELSE Return([pushed.self EXCEPT !.pc = addr_], Ok(Nop))

do_cls(self) ==
    LET s1 == [self EXCEPT !.screen = clear(@)]
    IN  Return(s1, Ok(Draw(pixels(s1.screen))))

do_cpdt(self, reg) ==
    Return([self EXCEPT !.vx[reg] = self.dt], Ok(Nop))

(* The slice memory[i .. i + n] panics when it ends past the memory or     *)
(* before its start; i + n is a u16 addition.                              *)
do_drw(self, reg1, reg2, n) ==
    LET x == self.vx[reg1]
        y == self.vx[reg2]
        sum == self.i + n
        end == sum % U16
    IN  IF (sum >= U16 /\ overflow_checks) \/ self.i > end \/ end > MEM_SIZE
          THEN Return(self, Panic)
          ELSE
            LET sprite_data == [k \in 1..n |-> self.memory[self.i + k - 1]]
                drawn == draw(self.screen, Sprite_new(x, y, sprite_data))
                s1 == [self EXCEPT !.screen = drawn.screen]
                s2 == IF drawn.ret.some
                        THEN [s1 EXCEPT !.vx[15] = drawn.ret.val]
                        ELSE s1
            IN  Return(s2, Ok(Draw(pixels(s2.screen))))

do_jp(self, addr_) ==
    Return([self EXCEPT !.pc = addr_], Ok(Nop))

(* A slip: the V0-relative jump forgets to add V0.                         *)
do_jprel_without_offset(self, addr_) ==
    Return([self EXCEPT !.pc = addr_], Ok(Nop))

do_jprel(self, addr_) ==
    LET s1 == [self EXCEPT !.pc = addr_]
    IN  Return([s1 EXCEPT !.pc = @ + s1.vx[0]], Ok(Nop))

do_ld(self, reg, val) ==
    Return([self EXCEPT !.vx[reg] = val], Ok(Nop))

do_lddt(self, reg) ==
    Return([self EXCEPT !.dt = self.vx[reg]], Ok(Nop))

do_ldi(self, addr_) ==
    Return([self EXCEPT !.i = addr_], Ok(Nop))

(* memory[i + j] = bcd[j] for j = 0, 1, 2: an index past the memory panics. *)
do_ldib(self, reg) ==
    LET val == self.vx[reg]
        bcd == to_bcd(val)
    IN  IF self.i + 2 >= MEM_SIZE
          THEN Return(self, Panic)
          ELSE Return([self EXCEPT
                         !.memory = [a \in DOMAIN self.memory |->
                                       IF a \in self.i..(self.i + 2)
                                         THEN bcd[a - self.i + 1]
                                         ELSE self.memory[a]]],
                      Ok(Nop))

(* for r in 0..=x: vx[r] = memory[i + r].                                  *)
do_ldim(self, reg) ==
    LET x == reg
    IN  IF self.i + x >= MEM_SIZE
          THEN Return(self, Panic)
          ELSE Return([self EXCEPT
                         !.vx = [r \in DOMAIN self.vx |->
                                   IF r \in 0..x THEN self.memory[self.i + r]
                                   ELSE self.vx[r]]],
                      Ok(Nop))

(* A slip: the loop runs over 0..x and leaves out register x.              *)
do_ldir_exclusive(self, reg) ==
    LET x == reg
    IN  IF self.i + x >= MEM_SIZE
          THEN Return(self, Panic)
          ELSE Return([self EXCEPT
                         !.memory = [a \in DOMAIN self.memory |->
                                       IF a \in self.i..(self.i + x - 1)
                                         THEN self.vx[a - self.i]
                                         ELSE self.memory[a]]],
                      Ok(Nop))

(* for r in 0..=x: memory[i + r] = vx[r].                                  *)
do_ldir(self, reg) ==
    LET x == reg
    IN  IF self.i + x >= MEM_SIZE
          THEN Return(self, Panic)
          ELSE Return([self EXCEPT
                         !.memory = [a \in DOMAIN self.memory |->
                                       IF a \in self.i..(self.i + x)
                                         THEN self.vx[a - self.i]
                                         ELSE self.memory[a]]],
                      Ok(Nop))

(* (digit * 4) is a u8 multiplication.                                     *)
do_ldis(self, reg) ==
    LET digit == self.vx[reg]
        product == digit * 4
    IN  IF product >= U8 /\ overflow_checks
          THEN Return(self, Panic)
          ELSE Return([self EXCEPT !.i = product % U8], Ok(Nop))

(* A slip: the program counter is not rewound while no key is pressed.     *)
do_ldkp_no_rewind(self, reg) ==
    LET key == pressed_key(self)
    IN  IF key.some
          THEN Return([self EXCEPT !.vx[reg] = key.val], Ok(Nop))
          ELSE Return(self, Ok(WaitForKey))

do_ldkp(self, reg) ==
    LET key == pressed_key(self)
    IN  IF key.some
          THEN Return([self EXCEPT !.vx[reg] = key.val], Ok(Nop))
          ELSE Return([self EXCEPT !.pc = @ - 2], Ok(WaitForKey))

do_ldr(self, reg1, reg2) ==
    Return([self EXCEPT !.vx[reg1] = self.vx[reg2]], Ok(Nop))

do_ldst(self, reg) ==
    Return([self EXCEPT !.st = self.vx[reg]], Ok(Nop))

do_or(self, reg1, reg2) ==
    Return([self EXCEPT !.vx[reg1] = BitOr(@, self.vx[reg2])], Ok(Nop))

do_ret(self) ==
    LET popped == pop_from_stack(self)
    IN  IF popped.ret.kind = "Err"
          THEN Return(popped.self, popped.ret)
          ELSE Return([popped.self EXCEPT !.pc = popped.ret.val], Ok(Nop))

(* r is the byte drawn by rng.gen_range(u8::MIN, u8::MAX).                 *)
do_rnd(self, reg, val, r) ==
    Return([self EXCEPT !.vx[reg] = BitAnd(r, val)], Ok(Nop))

do_se(self, reg, val) ==
    Return(IF self.vx[reg] = val THEN [self EXCEPT !.pc = @ + 2] ELSE self, Ok(Nop))

do_ser(self, reg1, reg2) ==
    Return(IF self.vx[reg1] = self.vx[reg2] THEN [self EXCEPT !.pc = @ + 2] ELSE self,
           Ok(Nop))

(* A slip: the flag is taken from the register after it was shifted.       *)
do_shl_flag_after_shift(self, reg) ==
    LET s1 == [self EXCEPT !.vx[reg] = (self.vx[reg] * 2) % U8]
    IN  Return([s1 EXCEPT !.vx[15] = IF BitAnd(s1.vx[reg], \h80) = 0 THEN 0 ELSE 1], Ok(Nop))

do_shl(self, reg) ==
    LET s1 == [self EXCEPT !.vx[15] = IF BitAnd(self.vx[reg], \h80) = 0 THEN 0 ELSE 1]
    IN  Return([s1 EXCEPT !.vx[reg] = (s1.vx[reg] * 2) % U8], Ok(Nop))

do_shr(self, reg) ==
    LET s1 == [self EXCEPT !.vx[15] = BitAnd(self.vx[reg], \h01)]
    IN  Return([s1 EXCEPT !.vx[reg] = ShiftRight(s1.vx[reg], 1)], Ok(Nop))

do_sknp(self, reg) ==
    LET key == self.vx[reg]
        pressed == is_pressed(self, key)
    IN  IF pressed.kind = "Panic" THEN Return(self, Panic)
        ELSE Return(IF ~pressed.val THEN [self EXCEPT !.pc = @ + 2] ELSE self, Ok(Nop))

do_skp(self, reg) ==
    LET key == self.vx[reg]
        pressed == is_pressed(self, key)
    IN  IF pressed.kind = "Panic" THEN Return(self, Panic)
        ELSE Return(IF pressed.val THEN [self EXCEPT !.pc = @ + 2] ELSE self, Ok(Nop))

do_sne(self, reg, val) ==
    Return(IF self.vx[reg] # val THEN [self EXCEPT !.pc = @ + 2] ELSE self, Ok(Nop))

do_sner(self, reg1, reg2) ==
    Return(IF self.vx[reg1] # self.vx[reg2] THEN [self EXCEPT !.pc = @ + 2] ELSE self,
           Ok(Nop))

(* A slip: VF raised when there is no borrow, lowered when there is one.   *)
do_sub_not_borrow(self, reg1, reg2) ==
    LET diff == self.vx[reg1] - self.vx[reg2]
        v == diff % U8
        overflow == diff < 0
        s1 == [self EXCEPT !.vx[reg1] = v]
    IN  Return([s1 EXCEPT !.vx[15] = IF overflow THEN 0 ELSE 1], Ok(Nop))

do_sub(self, reg1, reg2) ==
    LET a == self.vx[reg1]
        b == self.vx[reg2]
        v == (a - b + U8) % U8
        overflow == a < b
        s1 == [self EXCEPT !.vx[reg1] = v]
    IN  Return([s1 EXCEPT !.vx[15] = IF overflow THEN 1 ELSE 0], Ok(Nop))

do_subn(self, reg1, reg2) ==
    LET s1 == [self EXCEPT !.vx[15] = IF self.vx[reg2] > self.vx[reg1] THEN 1 ELSE 0]
        a == s1.vx[reg2]
        b == s1.vx[reg1]
        saturating_sub == IF a >= b THEN a - b ELSE 0
    IN  Return([s1 EXCEPT !.vx[reg1] = saturating_sub], Ok(Nop))

do_sys(self, addr_) == Return(self, Ok(Nop))

do_xor(self, reg1, reg2) ==
    Return([self EXCEPT !.vx[reg1] = BitXor(@, self.vx[reg2])], Ok(Nop))

(* A slip: the timer is counted down without the test for 0.               *)
decrease_timer_unguarded(t) == (t + U8 - 1) % U8

decrease_timer(t) == IF t > 0 THEN t - 1 ELSE t

(* The match on op in step().                                              *)
dispatch(self, o, r) ==
    CASE o.name = "ADD" -> do_add(self, o.reg, o.val)
      [] o.name = "ADDI" -> do_addi(self, o.reg)
      [] o.name = "ADDR" -> do_addr(self, o.reg1, o.reg2)
      [] o.name = "AND" -> do_and(self, o.reg1, o.reg2)
      [] o.name = "CALL" -> do_call(self, o.addr)
      [] o.name = "CLS" -> do_cls(self)
      [] o.name = "CPDT" -> do_cpdt(self, o.reg)
      [] o.name = "DRW" -> do_drw(self, o.reg1, o.reg2, o.val)
      [] o.name = "JP" -> do_jp(self, o.addr)
      [] o.name = "JPREL" -> do_jprel(self, o.addr)
      [] o.name = "LD" -> do_ld(self, o.reg, o.val)
      [] o.name = "LDDT" -> do_lddt(self, o.reg)
      [] o.name = "LDI" -> do_ldi(self, o.addr)
      [] o.name = "LDIB" -> do_ldib(self, o.reg)
      [] o.name = "LDIM" -> do_ldim(self, o.reg)
      [] o.name = "LDIR" -> do_ldir(self, o.reg)
      [] o.name = "LDIS" -> do_ldis(self, o.reg)
      [] o.name = "LDKP" -> do_ldkp(self, o.reg)
      [] o.name = "LDR" -> do_ldr(self, o.reg1, o.reg2)
      [] o.name = "LDST" -> do_ldst(self, o.reg)
      [] o.name = "OR" -> do_or(self, o.reg1, o.reg2)
      [] o.name = "RET" -> do_ret(self)
      [] o.name = "RND" -> do_rnd(self, o.reg, o.val, r)
      [] o.name = "SE" -> do_se(self, o.reg, o.val)
      [] o.name = "SER" -> do_ser(self, o.reg1, o.reg2)
      [] o.name = "SHL" -> do_shl(self, o.reg)
      [] o.name = "SHR" -> do_shr(self, o.reg)
      [] o.name = "SKNP" -> do_sknp(self, o.reg)
      [] o.name = "SKP" -> do_skp(self, o.reg)
      [] o.name = "SNE" -> do_sne(self, o.reg, o.val)
      [] o.name = "SNER" -> do_sner(self, o.reg1, o.reg2)
      [] o.name = "SUB" -> do_sub(self, o.reg1, o.reg2)
      [] o.name = "SUBN" -> do_subn(self, o.reg1, o.reg2)
      [] o.name = "SYS" -> do_sys(self, o.addr)
      [] o.name = "XOR" -> do_xor(self, o.reg1, o.reg2)

(* step(): r is the byte the random source yields should the instruction   *)
(* be RND.                                                                 *)
step(self, r) ==
    LET ticked == [self EXCEPT !.dt = decrease_timer(@), !.st = decrease_timer(@)]
        fetched == next_instruction(ticked)
    IN  IF fetched.ret.some
          THEN LET decoded == interpret(fetched.ret.val)
               IN  IF decoded.kind = "Err"
                     THEN Return(fetched.self, decoded)
                     ELSE dispatch(fetched.self, decoded.val, r)
          ELSE Return(fetched.self, Ok(Exit))

(* rng.gen_range(low, high) draws from the half-open range [low, high).    *)
gen_range(low, high) == low..(high - 1)

-----------------------------------------------------------------------------
(* The inputs: the ROM images the Emulator is constructed from, the keys   *)
(* the driver reports, the build profile.                                  *)

TimerTicks == 5
NumKeys == 2
LenSlack == 1

WordsToBytes(ws) ==
    [k \in 1..(2 * Len(ws)) |->
       IF k % 2 = 1 THEN ws[(k + 1) \div 2] \div 256 ELSE ws[k \div 2] % 256]

(* LD V0, k; LD V1, k+1; LDDT V1; LDST V0 leaves DT = ST = k; then k + 1   *)
(* SYS instructions, which do nothing.                                     *)
TimerProgram ==
    << \h6000 + TimerTicks, \h6100 + TimerTicks + 1, \hF115, \hF018 >>
      \o [k \in 1..(TimerTicks + 1) |-> \h0000]

Programs ==
    { << >>,                          \* the empty ROM
      TimerProgram,
      << \h8008, \h6105 >>,           \* no such instruction; LD V1, 5
      << \h00EE, \h6105 >>,           \* RET on an empty stack; LD V1, 5
      << \h2200, \h6105 >>,           \* CALL 0x200 for ever; LD V1, 5
      << \h2204, \h1206, \h00EE >>,   \* CALL 0x204; JP 0x206; RET
      << \hF30A, \h7301 >>,           \* LD V3, K; ADD V3, 1
      << \h6207, \hF215, \hF218, \hF30A, \hF407, \h00E0, \h8008 >>,
                                      \* LD V2, 7; LD DT, V2; LD ST, V2; LD V3, K;
                                      \* LD V4, DT; CLS; no such instruction
      << \h1100 >>,                   \* JP 0x100, below the program
      << \h1FFE >> }                  \* JP 0xFFE, above the program

(* ROM images of a length around the largest that fits the memory.         *)
LongRom(n) == [k \in 1..n |-> \h12]

BoundaryLens ==
    { n \in 0..MEM_SIZE : /\ n >= MEM_SIZE - MEM_START - LenSlack
                          /\ n <= MEM_SIZE - MEM_START + LenSlack }

RomInputs ==
    { WordsToBytes(p) : p \in Programs }
      \cup { << \h00 >> }             \* an odd number of bytes
      \cup { LongRom(n) : n \in BoundaryLens }

Keys == (KEY_COUNT - NumKeys)..(KEY_COUNT - 1)

Alive == "vx" \in DOMAIN emu

Unit == Ok(<< >>)

RandomDraws(self) ==
    LET fetched == next_instruction(self)
    IN  IF fetched.ret.some /\ BitAnd(fetched.ret.val, \hF000) = \hC000
          THEN gen_range(0, 255)
          ELSE {0}

-----------------------------------------------------------------------------
(* The Emulator under a driver: constructed from a ROM, then stepped and   *)
(* told of key events in any order.                                        *)

Init ==
    /\ rom_data \in RomInputs
    /\ overflow_checks \in BOOLEAN
    /\ emu = Emulator_new(rom_data).self
    /\ result = Emulator_new(rom_data).ret
    /\ call = [name |-> "new"]
    /\ fatal = FALSE
    /\ ins = 0
    /\ op = NotCalled
    /\ trail = << >>
    /\ driver = NoDriver

Step ==
    /\ Alive
    /\ \E r \in RandomDraws(emu) :
         LET out == step(emu, r)
         IN  /\ emu' = IF out.ret.kind = "Panic" THEN NoEmulator ELSE out.self
             /\ result' = out.ret
             /\ fatal' = (fatal \/ out.ret.kind = "Err")
    /\ call' = [name |-> "step"]
    /\ UNCHANGED <<rom_data, overflow_checks, ins, op, trail, driver>>

KeyPress ==
    /\ Alive
    /\ \E key \in Keys :
         /\ emu' = key_press(emu, key)
         /\ call' = [name |-> "key_press", key |-> key]
    /\ result' = Unit
    /\ UNCHANGED <<rom_data, overflow_checks, fatal, ins, op, trail, driver>>

KeyRelease ==
    /\ Alive
    /\ \E key \in Keys :
         /\ emu' = key_release(emu, key)
         /\ call' = [name |-> "key_release", key |-> key]
    /\ result' = Unit
    /\ UNCHANGED <<rom_data, overflow_checks, fatal, ins, op, trail, driver>>

Next == Step \/ KeyPress \/ KeyRelease

Spec == Init /\ [][Next]_vars

-----------------------------------------------------------------------------
(* The decoder alone: interpret() applied to every 16-bit word.            *)

InitDecode ==
    /\ ins \in 0..(U16 - 1)
    /\ op = NotCalled
    /\ emu = NoEmulator
    /\ rom_data = << >>
    /\ call = [name |-> "interpret"]
    /\ result = NotCalled
    /\ overflow_checks = FALSE
    /\ fatal = FALSE
    /\ trail = << >>
    /\ driver = NoDriver

Interpret ==
    /\ op.kind = "NotCalled"
    /\ op' = interpret(ins)
    /\ UNCHANGED <<emu, rom_data, call, result, overflow_checks, fatal, ins, trail, driver>>

NextDecode == Interpret

SpecDecode == InitDecode /\ [][NextDecode]_vars

-----------------------------------------------------------------------------
(* What the claims speak of, stated on the Emulator's fields alone.        *)

InProgram(e) == e.pc \in MEM_START..(e.rom_end - 1)
WordAt(e) == e.memory[e.pc] * 256 + e.memory[e.pc + 1]
Family(w) == w \div 4096
FieldX(w) == (w \div 256) % 16
FieldY(w) == (w \div 16) % 16
FieldKK(w) == w % 256
FieldN(w) == w % 16
FieldNNN(w) == w % 4096

Floor0(t) == IF t = 0 THEN 0 ELSE t - 1
KeysDown(e) == { k \in 0..15 : e.keyboard[k] }
SameFields(e, f, fields) == \A fld \in fields : e[fld] = f[fld]

(* A step() call is made and returns (it does not panic).                  *)
StepReturns == Alive /\ Alive' /\ call'.name = "step"

(* The instruction a step() from this state fetches is w.                  *)
Fetches(P(_)) == InProgram(emu) /\ P(WordAt(emu))
IsLDDT(w) == Family(w) = 15 /\ FieldKK(w) = \h15
IsLDST(w) == Family(w) = 15 /\ FieldKK(w) = \h18
IsCPDT(w) == Family(w) = 15 /\ FieldKK(w) = \h07
IsLDKP(w) == Family(w) = 15 /\ FieldKK(w) = \h0A
IsCALL(w) == Family(w) = 2
IsRET(w) == w = \h00EE

(* C1: every step() first counts DT and ST down by one, stopping at 0,     *)
(* whatever it then returns: the timers after the call are the counted-    *)
(* down values unless the instruction itself loads the timer, and LD Vx,   *)
(* DT reads the counted-down value.  From DT = ST = k, the j-th step over  *)
(* no-op instructions leaves both at k - j, and at 0 from the k-th on.     *)
C1_TimerStep ==
    StepReturns =>
      /\ emu'.dt = IF Fetches(IsLDDT) THEN emu.vx[FieldX(WordAt(emu))] ELSE Floor0(emu.dt)
      /\ emu'.st = IF Fetches(IsLDST) THEN emu.vx[FieldX(WordAt(emu))] ELSE Floor0(emu.st)
      /\ Fetches(IsCPDT) => emu'.vx[FieldX(WordAt(emu))] = Floor0(emu.dt)
      /\ emu'.dt \in 0..(U8 - 1) /\ emu'.st \in 0..(U8 - 1)

C1_TimerRun ==
    (Alive /\ rom_data = WordsToBytes(TimerProgram)) =>
      \A j \in 0..(TimerTicks + 1) :
        emu.pc = MEM_START + 2 * (4 + j) =>
          LET left == IF j < TimerTicks THEN TimerTicks - j ELSE 0
          IN  emu.dt = left /\ emu.st = left

C1_TimersCountDown == [](C1_TimerRun) /\ [][C1_TimerStep]_vars

C1_Witness ==
    /\ Alive
    /\ rom_data = WordsToBytes(TimerProgram)
    /\ emu.pc = MEM_START + 2 * Len(TimerProgram)
    /\ call.name = "step" /\ result = Ok(Nop)
    /\ emu.dt = 0 /\ emu.st = 0

(* C2: a step() made with the program counter outside [512, rom_end)       *)
(* returns Exit and changes nothing but the timers, and the program        *)
(* counter stays outside whatever call comes next, so every later step()   *)
(* returns Exit too.                                                       *)
C2_ExitIsTerminal ==
    [][ (Alive /\ ~InProgram(emu)) =>
          /\ Alive'
          /\ ~InProgram(emu')
          /\ call'.name = "step" =>
               /\ result' = Ok(Exit)
               /\ SameFields(emu, emu', {"vx", "i", "pc", "sp", "stack", "memory",
                                        "keyboard", "screen", "rom_end"})
               /\ emu'.dt = Floor0(emu.dt) /\ emu'.st = Floor0(emu.st) ]_vars

C2_Witness ==
    /\ Alive
    /\ emu.pc < MEM_START
    /\ call.name = "step" /\ result = Ok(Exit)
    /\ KeysDown(emu) # {}

(* C3: once a step() has returned an error, no later step() changes the    *)
(* registers, I, the program counter, the stack, the memory or the         *)
(* framebuffer.                                                            *)
C3_ErrorIsTerminal ==
    [][ (Alive /\ fatal /\ call'.name = "step") =>
          /\ Alive'
          /\ SameFields(emu, emu', {"vx", "i", "pc", "sp", "stack", "memory",
                                   "screen"}) ]_vars

(* The opcode table: the words it lists and the operation it gives each.   *)
ListedFx == { \h07, \h0A, \h15, \h18, \h1E, \h29, \h33, \h55, \h65 }
ListedEx == { \h9E, \hA1 }
Listed8 == { 0, 1, 2, 3, 4, 5, 6, 7, 14 }

Listed(w) ==
    \/ Family(w) \in { 0, 1, 2, 3, 4, 6, 7, 10, 11, 12, 13 }
    \/ Family(w) \in { 5, 9 } /\ FieldN(w) = 0
    \/ Family(w) = 8 /\ FieldN(w) \in Listed8
    \/ Family(w) = 14 /\ FieldKK(w) \in ListedEx
    \/ Family(w) = 15 /\ FieldKK(w) \in ListedFx

TableR(name, w) == [name |-> name, reg |-> FieldX(w)]
TableRR(name, w) == [name |-> name, reg1 |-> FieldX(w), reg2 |-> FieldY(w)]
TableRV(name, w) == [name |-> name, reg |-> FieldX(w), val |-> FieldKK(w)]
TableA(name, w) == [name |-> name, addr |-> FieldNNN(w)]

Table8(w) ==
    CASE FieldN(w) = 0 -> TableRR("LDR", w)
      [] FieldN(w) = 1 -> TableRR("OR", w)
      [] FieldN(w) = 2 -> TableRR("AND", w)
      [] FieldN(w) = 3 -> TableRR("XOR", w)
      [] FieldN(w) = 4 -> TableRR("ADDR", w)
      [] FieldN(w) = 5 -> TableRR("SUB", w)
      [] FieldN(w) = 6 -> TableR("SHR", w)
      [] FieldN(w) = 7 -> TableRR("SUBN", w)
      [] FieldN(w) = 14 -> TableR("SHL", w)

TableF(w) ==
    CASE FieldKK(w) = \h07 -> TableR("CPDT", w)
      [] FieldKK(w) = \h0A -> TableR("LDKP", w)
      [] FieldKK(w) = \h15 -> TableR("LDDT", w)
      [] FieldKK(w) = \h18 -> TableR("LDST", w)
      [] FieldKK(w) = \h1E -> TableR("ADDI", w)
      [] FieldKK(w) = \h29 -> TableR("LDIS", w)
      [] FieldKK(w) = \h33 -> TableR("LDIB", w)
      [] FieldKK(w) = \h55 -> TableR("LDIR", w)
      [] FieldKK(w) = \h65 -> TableR("LDIM", w)

Table(w) ==
    CASE w = \h00E0 -> [name |-> "CLS"]
      [] w = \h00EE -> [name |-> "RET"]
      [] Family(w) = 0 /\ w \notin { \h00E0, \h00EE } -> TableA("SYS", w)
      [] Family(w) = 1 -> TableA("JP", w)
      [] Family(w) = 2 -> TableA("CALL", w)
      [] Family(w) = 3 -> TableRV("SE", w)
      [] Family(w) = 4 -> TableRV("SNE", w)
      [] Family(w) = 5 -> TableRR("SER", w)
      [] Family(w) = 6 -> TableRV("LD", w)
      [] Family(w) = 7 -> TableRV("ADD", w)
      [] Family(w) = 8 -> Table8(w)
      [] Family(w) = 9 -> TableRR("SNER", w)
      [] Family(w) = 10 -> TableA("LDI", w)
      [] Family(w) = 11 -> TableA("JPREL", w)
      [] Family(w) = 12 -> TableRV("RND", w)
      [] Family(w) = 13 -> [name |-> "DRW", reg1 |-> FieldX(w), reg2 |-> FieldY(w),
                            val |-> FieldN(w)]
      [] Family(w) = 14 -> IF FieldKK(w) = \h9E THEN TableR("SKP", w)
                           ELSE TableR("SKNP", w)
      [] Family(w) = 15 -> TableF(w)

Decoded == op.kind # "NotCalled"

(* C4: for every word the opcode table lists, interpret() returns the      *)
(* table's operation with x = bits 8-11, y = bits 4-7, kk = the low byte,  *)
(* n = the low nibble and nnn = the low 12 bits as its operands.           *)
C4_DecodeListed ==
    (Decoded /\ Listed(ins)) => op = Ok(Table(ins))

C4_Witness ==
    /\ ins = \hD875
    /\ op = Ok([name |-> "DRW", reg1 |-> 8, reg2 |-> 7, val |-> 5])

(* C5: for every word the opcode table does not list, interpret() returns  *)
(* the unknown-instruction error carrying that word.                       *)
C5_DecodeUnlisted ==
    (Decoded /\ ~Listed(ins)) => op = Err(UnknownInstruction(ins))

(* C6: the stack depth is always within [0, 16]; a CALL at a depth below   *)
(* 16 succeeds and deepens the stack by one, a CALL at depth 16 returns    *)
(* StackOverflow, and a RET at depth 0 returns StackUnderflow.             *)
C6_CallStep ==
    (Alive /\ call'.name = "step") =>
      /\ (Fetches(IsCALL) /\ emu.sp < 16) =>
           Alive' /\ result' = Ok(Nop) /\ emu'.sp = emu.sp + 1
      /\ (Fetches(IsCALL) /\ emu.sp = 16) =>
           Alive' /\ result' = Err(StackOverflow) /\ emu'.sp = 16
      /\ (Fetches(IsRET) /\ emu.sp = 0) =>
           Alive' /\ result' = Err(StackUnderflow) /\ emu'.sp = 0

C6_StackDepth == [](Alive => emu.sp \in 0..16) /\ [][C6_CallStep]_vars

C6_Witness ==
    /\ Alive
    /\ emu.sp = 16
    /\ call.name = "step" /\ result = Err(StackOverflow)

(* C7: a step() that executes a key-wait instruction while no key is       *)
(* pressed returns WaitForKey and leaves the program counter, V0..VF, I,   *)
(* the stack, the memory and the framebuffer as they were.                 *)
C7_KeyWaitBlocks ==
    [][ (Alive /\ call'.name = "step" /\ Fetches(IsLDKP) /\ KeysDown(emu) = {}) =>
          /\ Alive'
          /\ result' = Ok(WaitForKey)
          /\ SameFields(emu, emu', {"pc", "vx", "i", "sp", "stack", "memory",
                                   "screen"}) ]_vars

C7_Witness ==
    /\ Alive
    /\ call.name = "step" /\ result = Ok(WaitForKey)
    /\ KeysDown(emu) = {}
    /\ Fetches(IsLDKP)

(* C8: a step() that executes a key-wait instruction Fx0A while a key is   *)
(* pressed puts the lowest pressed key's index in Vx, returns Nop and      *)
(* leaves the program counter at the following instruction.                *)
C8_KeyWaitLoads ==
    [][ (Alive /\ call'.name = "step" /\ Fetches(IsLDKP) /\ KeysDown(emu) # {}) =>
          /\ Alive'
          /\ result' = Ok(Nop)
          /\ emu'.pc = emu.pc + 2
          /\ \E k \in KeysDown(emu) :
               /\ \A j \in 0..(k - 1) : j \notin KeysDown(emu)
               /\ emu'.vx[FieldX(WordAt(emu))] = k ]_vars

C8_Witness ==
    /\ Alive
    /\ rom_data = WordsToBytes(<< \hF30A, \h7301 >>)
    /\ call.name = "step" /\ result = Ok(Nop)
    /\ emu.pc = MEM_START + 2
    /\ KeysDown(emu) = { 14, 15 }
    /\ emu.vx[3] = 14

(* C9: construction succeeds for every byte stream of at most MEM_SIZE -   *)
(* 512 = 3584 bytes and fails with InvalidROM, returning no Emulator, for  *)
(* every longer one.                                                       *)
C9_RomLimit ==
    call.name = "new" =>
      IF Len(rom_data) <= MEM_SIZE - 512
        THEN result.kind = "Ok" /\ Alive
        ELSE result = Err(InvalidROM) /\ ~Alive

(* C10: after a successful construction from the bytes b[0..n) the memory  *)
(* holds the font in [0, 80), b[k] at 512 + k and 0 elsewhere, the program *)
(* region ends at 512 + n, PC = 512, the registers, I and the timers are   *)
(* 0, the stack is empty, no key is pressed and the framebuffer is blank.  *)
C10_FreshState ==
    (call.name = "new" /\ result.kind = "Ok") =>
      /\ Alive
      /\ \A a \in 0..4095 :
           emu.memory[a] =
             IF a < 80 THEN FONT_SET[a + 1]
             ELSE IF a >= 512 /\ a - 512 < Len(rom_data) THEN rom_data[a - 512 + 1]
             ELSE 0
      /\ emu.rom_end = 512 + Len(rom_data)
      /\ emu.pc = 512
      /\ \A r \in 0..15 : emu.vx[r] = 0
      /\ emu.i = 0
      /\ emu.sp = 0
      /\ emu.dt = 0 /\ emu.st = 0
      /\ KeysDown(emu) = {}
      /\ \A k \in 0..2047 : emu.screen.pixels[k] = 0

C10_Witness ==
    /\ call.name = "new" /\ result.kind = "Ok"
    /\ Alive
    /\ Len(rom_data) = MEM_SIZE - MEM_START - 1
    /\ emu.memory[MEM_SIZE - 2] = \h12


(***************************************************************************)
(* Instruction harness: one instruction word is decoded and dispatched on  *)
(* an Emulator whose registers hold the operands, as step() does after the *)
(* fetch (implementation.rs 148-187).  The arithmetic handlers touch the   *)
(* register file only, so the Emulator of these specifications carries     *)
(* just the vx field.                                                      *)
(***************************************************************************)
Ready(e, w) ==
    /\ emu = e
    /\ ins = w
    /\ op = NotCalled
    /\ rom_data = << >>
    /\ call = [name |-> "ready"]
    /\ result = NotCalled
    /\ fatal = FALSE
    /\ trail = << >>
    /\ driver = NoDriver

Execute ==
    /\ call.name = "ready"
    /\ LET decoded == interpret(ins)
           out == dispatch(emu, decoded.val, 0)
       IN  /\ decoded.kind = "Ok"
           /\ op' = decoded
           /\ emu' = IF out.ret.kind = "Panic" THEN NoEmulator ELSE out.self
           /\ result' = out.ret
    /\ call' = [name |-> "execute"]
    /\ trail' = << [emu |-> emu, ins |-> ins] >>
    /\ UNCHANGED <<rom_data, overflow_checks, fatal, ins, driver>>

NextExecute == Execute

(* Operand bytes at the ends and in the middle of the u8 range.            *)
EdgeBytes == {0, 1, 127, 128, 200, 255}

(* Registers x and y of the word hold a and b (b when x = y); register r   *)
(* otherwise holds 17 * r, so that an unexpected write shows.              *)
RegisterFile(w, a, b) ==
    [r \in 0..(REG_COUNT - 1) |->
        IF r = FieldY(w) THEN b ELSE IF r = FieldX(w) THEN a ELSE 17 * r]

(* Every pair of bytes for the words in plain, the edge bytes for the      *)
(* words in aliased (x = y, x = F or y = F).                               *)
InitAlu(plain, aliased) ==
    /\ overflow_checks = FALSE
    /\ \E w \in plain \cup aliased, a \in 0..(U8 - 1), b \in 0..(U8 - 1) :
         /\ w \in aliased => (a \in EdgeBytes /\ b \in EdgeBytes)
         /\ Ready([vx |-> RegisterFile(w, a, b)], w)

Executed == call.name = "execute"
Old == trail[1].emu
OldVx == Old.vx[FieldX(ins)]
OldVy == Old.vx[FieldY(ins)]
OthersKept(regs) ==
    \A r \in 0..(REG_COUNT - 1) : r \notin regs => emu.vx[r] = Old.vx[r]

InitADDR == InitAlu({\h8124}, {\h8114, \h8F24, \h81F4, \h8FF4})
SpecADDR == InitADDR /\ [][NextExecute]_vars

(* C11: 8xy4 leaves VF = 1 if old Vx + old Vy exceeds 255 and VF = 0       *)
(* otherwise; for x other than F the new Vx is the sum modulo 256; no      *)
(* register other than Vx and VF changes.                                  *)
C11_AddCarry ==
    Executed =>
      /\ result = Ok(Nop)
      /\ emu.vx[15] = (IF OldVx + OldVy > 255 THEN 1 ELSE 0)
      /\ FieldX(ins) # 15 => emu.vx[FieldX(ins)] = (OldVx + OldVy) % 256
      /\ OthersKept({FieldX(ins), 15})

(* 200 + 100 carries out of V1; 0 + 0 lowers a VF that held 255.           *)
C11_Witness ==
    /\ Executed /\ ins = \h8124
    /\ OldVx = 200 /\ OldVy = 100
    /\ emu.vx[1] = 44 /\ emu.vx[15] = 1


InitSUB == InitAlu({\h8125}, {\h8115, \h8F25, \h81F5, \h8FF5})
SpecSUB == InitSUB /\ [][NextExecute]_vars

(* C12: 8xy5 leaves VF = 1 exactly when old Vy exceeds old Vx (the         *)
(* subtraction borrows) and VF = 0 otherwise; for x other than F the new   *)
(* Vx is old Vx - old Vy modulo 256; no other register changes.            *)
C12_SubBorrow ==
    Executed =>
      /\ result = Ok(Nop)
      /\ emu.vx[15] = (IF OldVy > OldVx THEN 1 ELSE 0)
      /\ FieldX(ins) # 15 => emu.vx[FieldX(ins)] = (OldVx - OldVy) % 256
      /\ OthersKept({FieldX(ins), 15})

(* 3 - 5 borrows and wraps to 254.                                         *)
C12_Witness ==
    /\ Executed /\ ins = \h8125
    /\ OldVx = 3 /\ OldVy = 5
    /\ emu.vx[1] = 254 /\ emu.vx[15] = 1


InitSUBN == InitAlu({\h8127}, {\h8117, \h8F27, \h81F7, \h8FF7})
SpecSUBN == InitSUBN /\ [][NextExecute]_vars

(* C13: 8xy7 leaves VF = 1 exactly when old Vx exceeds old Vy (Vy - Vx     *)
(* borrows) and VF = 0 otherwise; for x other than F the new Vx is         *)
(* old Vy - old Vx modulo 256, wrapping around rather than stopping at 0.  *)
C13_SubnBorrow ==
    Executed =>
      /\ result = Ok(Nop)
      /\ emu.vx[15] = (IF OldVx > OldVy THEN 1 ELSE 0)
      /\ FieldX(ins) # 15 => emu.vx[FieldX(ins)] = (OldVy - OldVx) % 256


InitShift ==
    InitAlu({\h8126, \h812E}, {\h8116, \h811E, \h81F6, \h81FE, \h8F26, \h8F2E})
SpecShift == InitShift /\ [][NextExecute]_vars

IsSHR(w) == Family(w) = 8 /\ FieldN(w) = 6
IsSHL(w) == Family(w) = 8 /\ FieldN(w) = 14

(* C14: for x other than F, 8xy6 leaves VF = the old low bit of Vx and     *)
(* Vx = old Vx div 2, and 8xyE leaves VF = the old high bit of Vx and      *)
(* Vx = old Vx * 2 modulo 256; the outcome does not depend on Vy, and no   *)
(* register other than Vx and VF (so not Vy either) changes.               *)
C14_Shifts ==
    (Executed /\ FieldX(ins) # 15) =>
      /\ result = Ok(Nop)
      /\ IsSHR(ins) => /\ emu.vx[15] = OldVx % 2
                       /\ emu.vx[FieldX(ins)] = OldVx \div 2
      /\ IsSHL(ins) => /\ emu.vx[15] = OldVx \div 128
                       /\ emu.vx[FieldX(ins)] = (OldVx * 2) % 256
      /\ OthersKept({FieldX(ins), 15})

(* SHL of 0xC1 with V2 = 7: bit 7 goes to VF, bit 6 stays in V1.           *)
C14_Witness ==
    /\ Executed /\ ins = \h812E
    /\ OldVx = \hC1 /\ OldVy = 7
    /\ emu.vx[1] = \h82 /\ emu.vx[15] = 1 /\ emu.vx[2] = 7


(***************************************************************************)
(* The handlers that move data between the registers and memory[I..] run   *)
(* on a freshly constructed Emulator (no ROM) whose registers and I were   *)
(* loaded with the operands.                                               *)
(***************************************************************************)
Loaded(regs, addr_) ==
    [Emulator_new(<< >>).self EXCEPT !.vx = regs, !.i = addr_]

(* I inside the font, in free memory, and as far up as three bytes fit.    *)
BcdAddrs == {0, \h300, MEM_SIZE - 3}

InitLDIB ==
    /\ overflow_checks = FALSE
    /\ \E w \in {\hF133, \hFF33}, v \in 0..(U8 - 1), a \in BcdAddrs :
         Ready(Loaded(RegisterFile(w, v, v), a), w)
SpecLDIB == InitLDIB /\ [][NextExecute]_vars

(* C15: Fx33 writes to memory[I], memory[I+1], memory[I+2] three digits    *)
(* d0, d1, d2 in 0..9 with 100*d0 + 10*d1 + d2 = Vx, for every byte Vx,    *)
(* and changes no other memory byte, no register and not I.                *)
C15_Bcd ==
    Executed =>
      LET a == Old.i
          d0 == emu.memory[a]
          d1 == emu.memory[a + 1]
          d2 == emu.memory[a + 2]
      IN  /\ result = Ok(Nop)
          /\ {d0, d1, d2} \subseteq 0..9
          /\ 100 * d0 + 10 * d1 + d2 = OldVx
          /\ \A k \in 0..(MEM_SIZE - 1) :
               k \notin a..(a + 2) => emu.memory[k] = Old.memory[k]
          /\ emu = [Old EXCEPT !.memory = emu.memory]

(* 109 is stored as 1, 0, 9 at 0x300.                                      *)
C15_Witness ==
    /\ Executed /\ ins = \hF133
    /\ OldVx = 109 /\ emu.i = \h300
    /\ emu.memory[\h300] = 1 /\ emu.memory[\h301] = 0 /\ emu.memory[\h302] = 9


(* Register files with sixteen different values.                           *)
BlockSeeds == {1, 100}
Pattern(seed) == [r \in 0..(REG_COUNT - 1) |-> (17 * r + seed) % U8]

(* I at the font, in free memory, and as far up as sixteen bytes fit.      *)
BlockAddrs == {0, \h300, MEM_SIZE - REG_COUNT}

BlockWords == { \hF055 + 256 * x : x \in 0..(REG_COUNT - 1) } \cup
              { \hF065 + 256 * x : x \in 0..(REG_COUNT - 1) }

InitBlock ==
    /\ overflow_checks = FALSE
    /\ \E w \in BlockWords, seed \in BlockSeeds, a \in BlockAddrs :
         Ready(Loaded(Pattern(seed), a), w)

(* After Fx55 the program overwrites every register (LD Vr, kk) and then   *)
(* executes Fx65 with the same x and I.                                    *)
Reload ==
    /\ call.name = "execute" /\ Len(trail) = 1 /\ Alive
    /\ FieldKK(ins) = \h55
    /\ LET w == ins + \h10
           overwritten == [emu EXCEPT !.vx = [r \in DOMAIN @ |-> (U8 - 1) - @[r]]]
           decoded == interpret(w)
           out == dispatch(overwritten, decoded.val, 0)
       IN  /\ ins' = w
           /\ op' = decoded
           /\ emu' = IF out.ret.kind = "Panic" THEN NoEmulator ELSE out.self
           /\ result' = out.ret
           /\ trail' = << [emu |-> overwritten, ins |-> w] >> \o trail
    /\ UNCHANGED <<rom_data, call, overflow_checks, fatal, driver>>

NextBlock == Execute \/ Reload
SpecBlock == InitBlock /\ [][NextBlock]_vars

IsLDIR(w) == Family(w) = 15 /\ FieldKK(w) = \h55
IsLDIM(w) == Family(w) = 15 /\ FieldKK(w) = \h65

(* C16: Fx55 sets memory[I + k] = Vk for exactly k = 0..x and changes no   *)
(* other memory byte; Fx65 sets Vk = memory[I + k] for exactly k = 0..x    *)
(* and leaves V(x+1)..VF; both leave I unchanged; and Fx65 executed after  *)
(* Fx55 with the same x and I gives V0..Vx the values that were stored,    *)
(* whatever the registers held in between.                                 *)
C16_BlockTransfer ==
    Executed =>
      LET a == Old.i
          x == FieldX(ins)
      IN  /\ result = Ok(Nop)
          /\ emu.i = a
          /\ IsLDIR(ins) =>
               /\ \A k \in 0..(MEM_SIZE - 1) :
                    emu.memory[k] = IF k \in a..(a + x) THEN Old.vx[k - a]
                                    ELSE Old.memory[k]
               /\ emu.vx = Old.vx
          /\ IsLDIM(ins) =>
               /\ \A r \in 0..(REG_COUNT - 1) :
                    emu.vx[r] = IF r <= x THEN Old.memory[a + r] ELSE Old.vx[r]
               /\ emu.memory = Old.memory
          /\ Len(trail) = 2 =>
               \A k \in 0..x : emu.vx[k] = trail[2].emu.vx[k]

(* F355 then F365 at 0x300: V3 is back although it was overwritten, V4 is  *)
(* not.                                                                    *)
C16_Witness ==
    /\ Executed /\ Len(trail) = 2
    /\ ins = \hF365 /\ trail[2].ins = \hF355 /\ emu.i = \h300
    /\ emu.vx[3] = trail[2].emu.vx[3] /\ emu.vx[3] # Old.vx[3]
    /\ emu.vx[4] = Old.vx[4] /\ emu.vx[4] # trail[2].emu.vx[4]
    /\ emu.memory[\h303] = emu.vx[3] /\ emu.memory[\h304] = 0


InitLDIS ==
    /\ overflow_checks \in BOOLEAN
    /\ \E w \in {\hF129, \hFF29}, v \in 0..(U8 - 1) :
         Ready(Loaded(RegisterFile(w, v, v), \h300), w)
SpecLDIS == InitLDIS /\ [][NextExecute]_vars

(* FONT_SET lists the sixteen glyphs in digit order, five bytes a glyph.   *)
GLYPH_LEN == 5
GlyphStart(d) == GLYPH_LEN * d

(* C17: Fx29 sets I to 4 * Vx for every byte value of Vx, and for a hex    *)
(* digit Vx = d that address is where the glyph of d starts in the font    *)
(* table memory[0..80).                                                    *)
C17_GlyphAddress ==
    Executed =>
      /\ Alive /\ result = Ok(Nop)
      /\ emu.i = 4 * OldVx
      /\ OldVx < 16 => emu.i = GlyphStart(OldVx)


(* The key a skip instruction asks for is any byte; nothing, key 1 or key  *)
(* F is held down.                                                         *)
HeldKeys == {{}, {1}, {15}}

InitKeySkip ==
    /\ overflow_checks \in BOOLEAN
    /\ \E w \in {\hE19E, \hE1A1}, v \in 0..(U8 - 1), held \in HeldKeys :
         Ready([Loaded(RegisterFile(w, v, v), 0) EXCEPT
                  !.keyboard = [k \in DOMAIN @ |-> k \in held]], w)
SpecKeySkip == InitKeySkip /\ [][NextExecute]_vars

(* C18: Ex9E and ExA1 complete with a signal for every byte value of Vx,   *)
(* also for Vx in 16..255: no keypad access out of range, no fault.        *)
C18_KeySkipGuarded ==
    Executed => (Alive /\ result = Ok(Nop))


(***************************************************************************)
(* Drawing: an Emulator with the font in memory and a blank or drawn-on    *)
(* screen executes up to MaxDraws times the sequence LD V1, x; LD V2, y;   *)
(* LD I, addr; DRW V1, V2, n.  The sprites are read from the font and from *)
(* zeroed memory.                                                          *)
(***************************************************************************)
MaxDraws == 2

(* The origin of test_draw_sprite, one overlapping it, one clipped at the  *)
(* right edge, one crossing the bottom edge.                               *)
Origins == { <<10, 10>>, <<12, 11>>, <<62, 10>>, <<10, 30>> }

(* The sprite of test_draw_sprite (the glyph of 9), the glyphs of 0..2 as  *)
(* one sprite of 15 rows, and one row without a lit bit.                   *)
SpriteSources == { [addr |-> 45, n |-> 5], [addr |-> 0, n |-> 15],
                   [addr |-> \h300, n |-> 1] }

Draws == IF "count" \in DOMAIN call THEN call.count ELSE 0

(* The screen is blank, or holds what the first draw of test_draw_sprite   *)
(* left: the glyph of 9 at (10, 10).                                       *)
Backgrounds ==
    { Screen_default,
      draw(Screen_default,
           Sprite_new(10, 10, [k \in 1..5 |-> FONT_SET[45 + k]])).screen }

InitDraw ==
    /\ overflow_checks = FALSE
    /\ \E bg \in Backgrounds :
         Ready([Emulator_new(<< >>).self EXCEPT !.screen = bg], 0)

DrawSprite ==
    /\ Alive /\ Draws < MaxDraws
    /\ \E at \in Origins, src \in SpriteSources :
         LET w == \hD120 + src.n
             s1 == do_ld(emu, 1, at[1]).self
             s2 == do_ld(s1, 2, at[2]).self
             s3 == do_ldi(s2, src.addr).self
             decoded == interpret(w)
             out == dispatch(s3, decoded.val, 0)
         IN  /\ ins' = w
             /\ op' = decoded
             /\ emu' = IF out.ret.kind = "Panic" THEN NoEmulator ELSE out.self
             /\ result' = out.ret
             /\ trail' = SubSeq(<< [emu |-> s3, ins |-> w] >> \o trail, 1,
                                IF Len(trail) = 0 THEN 1 ELSE 2)
    /\ call' = [name |-> "execute", count |-> Draws + 1]
    /\ UNCHANGED <<rom_data, overflow_checks, fatal, driver>>

NextDraw == DrawSprite
SpecDraw == InitDraw /\ [][NextDraw]_vars

Cells == 0..(TOTAL_PIXELS - 1)
Toggled == { k \in Cells : emu.screen.pixels[k] # Old.screen.pixels[k] }

(* C19: a draw at an origin x < 64, y < 32 raises the collision flag       *)
(* exactly when one of the cells it toggled held 1 before the draw, and    *)
(* DRW leaves VF equal to that flag.                                       *)
C19_Collision ==
    (Executed /\ OldVx < WIDTH /\ OldVy < HEIGHT) =>
      /\ Alive /\ result.kind = "Ok" /\ result.val.step = "Draw"
      /\ emu.vx[15] =
           IF \E k \in Toggled : Old.screen.pixels[k] = 1 THEN 1 ELSE 0

(* A draw that switches some cells off and others on: VF = 1.  And one     *)
(* that toggles cells of a screen that is not blank, none of them lit.     *)
C19_Witness ==
    /\ Executed /\ emu.vx[15] = 1
    /\ \E k \in Toggled : Old.screen.pixels[k] = 1
    /\ \E k \in Toggled : Old.screen.pixels[k] = 0


(* The draw before last used the same sprite bytes, origin and height.     *)
SameDrawTwice ==
    /\ Executed /\ Len(trail) = 2
    /\ trail[2].ins = trail[1].ins
    /\ trail[2].emu.i = Old.i
    /\ trail[2].emu.vx[1] = OldVx /\ trail[2].emu.vx[2] = OldVy
    /\ trail[2].emu.memory = Old.memory

(* The sprite DRW reads has a lit bit that falls on a cell of the grid.    *)
LitInside ==
    /\ OldVx < WIDTH /\ OldVy < HEIGHT
    /\ \E h \in 0..(FieldN(ins) - 1), w \in 0..(SPRITE_WIDTH - 1) :
         /\ (Old.memory[Old.i + h] \div (2 ^ (7 - w))) % 2 = 1
         /\ OldVx + w < WIDTH /\ OldVy + h < HEIGHT

Blank(screen) == \A k \in Cells : screen.pixels[k] = 0

(* C20 as stated: drawing the same sprite twice at the same origin leaves  *)
(* the framebuffer as it was before the first of the two draws, and the    *)
(* second draw reports a collision when the sprite has a lit bit inside    *)
(* the grid; a draw on an all-zero framebuffer reports no collision.       *)
C20_DrawTwice ==
    /\ SameDrawTwice =>
         /\ Alive
         /\ emu.screen = trail[2].emu.screen
         /\ LitInside => emu.vx[15] = 1
    /\ (Executed /\ Blank(Old.screen) /\ OldVx < WIDTH /\ OldVy < HEIGHT) =>
         (Alive /\ emu.vx[15] = 0)

(* C20, amended: the two draws leave the framebuffer as it was before the  *)
(* first; the second reports a collision exactly when one of the cells the *)
(* sprite toggles was 0 before the first draw, so whenever that first draw *)
(* was made on an all-zero framebuffer with a lit bit inside the grid; a   *)
(* draw on an all-zero framebuffer reports no collision.                   *)
C20_DrawTwiceAmended ==
    /\ SameDrawTwice =>
         /\ Alive
         /\ emu.screen = trail[2].emu.screen
         /\ emu.vx[15] = 1 <=>
              \E k \in Toggled : trail[2].emu.screen.pixels[k] = 0
         /\ (LitInside /\ Blank(trail[2].emu.screen)) => emu.vx[15] = 1
    /\ (Executed /\ Blank(Old.screen) /\ OldVx < WIDTH /\ OldVy < HEIGHT) =>
         (Alive /\ emu.vx[15] = 0)

(* test_draw_sprite: the glyph of 9 at (10, 10) twice from the blank       *)
(* screen; the two draws cancel and the second leaves VF = 1.              *)
C20_Witness ==
    /\ SameDrawTwice /\ LitInside
    /\ OldVx = 10 /\ OldVy = 10 /\ Old.i = 45 /\ FieldN(ins) = 5
    /\ Blank(emu.screen) /\ ~Blank(Old.screen)
    /\ emu.vx[15] = 1


(***************************************************************************)
(* One DRW on an Emulator built from a ROM of sprite bytes, with V1, V2,   *)
(* VF and I loaded and the screen blank or drawn on.  The origins lie in   *)
(* the grid, at its right and bottom edges, and off it.                    *)
(***************************************************************************)
SpriteRom ==
    << \hFF, \h81, \h3C, \h01, \h80, \hFF, \h00, \hA5,
       \h5A, \hFF, \h18, \hC3, \h7E, \h0F, \hFF, \h00 >>

BlitX == {8, 57, 63, 64, 255}
BlitY == {9, 20, 31, 32, 255}
BlitSources == { [addr |-> MEM_START, n |-> 0], [addr |-> MEM_START, n |-> 1],
                 [addr |-> MEM_START, n |-> 15], [addr |-> 45, n |-> 5] }

InitBlit ==
    /\ overflow_checks = FALSE
    /\ rom_data = SpriteRom
    /\ \E x \in BlitX, y \in BlitY, src \in BlitSources,
          bg \in Backgrounds, flag \in {0, 1} :
         /\ emu = [Emulator_new(SpriteRom).self EXCEPT
                     !.vx[1] = x, !.vx[2] = y, !.vx[15] = flag,
                     !.i = src.addr, !.screen = bg]
         /\ ins = \hD120 + src.n
    /\ op = NotCalled
    /\ call = [name |-> "ready"]
    /\ result = NotCalled
    /\ fatal = FALSE
    /\ trail = << >>
    /\ driver = NoDriver
SpecBlit == InitBlit /\ [][NextExecute]_vars

OffGrid == OldVx >= WIDTH \/ OldVy >= HEIGHT

(* C21: a draw whose origin has x >= 64 or y >= 32 changes no framebuffer  *)
(* cell and reports no collision (VF keeps its value), whatever the sprite *)
(* bytes and their number.                                                 *)
C21_OffGridRejected ==
    (Executed /\ OffGrid) =>
      /\ Alive /\ result.kind = "Ok"
      /\ emu.screen = Old.screen
      /\ emu.vx = Old.vx

(* 15 rows at (64, 9) on the drawn-on screen with VF = 1: nothing changes. *)
C21_Witness ==
    /\ Executed /\ OffGrid /\ OldVx = 64 /\ OldVy = 9 /\ FieldN(ins) = 15
    /\ ~Blank(emu.screen) /\ emu.screen = Old.screen
    /\ emu.vx[15] = 1


(* Bit w (0 the leftmost) of row h of the sprite DRW reads.                *)
SpriteBit(h, w) == (Old.memory[Old.i + h] \div (2 ^ (7 - w))) % 2

(* The cells under the lit bits of the sprite that fall inside the grid.   *)
Covered ==
    { (OldVy + hw[1]) * WIDTH + (OldVx + hw[2]) :
        hw \in { p \in (0..(FieldN(ins) - 1)) \X (0..(SPRITE_WIDTH - 1)) :
                   /\ SpriteBit(p[1], p[2]) = 1
                   /\ OldVx + p[2] < WIDTH
                   /\ OldVy + p[1] < HEIGHT } }

(* C26: a draw at an origin x < 64, y < 32 toggles the cell (cx, cy)       *)
(* exactly when cx = x + w and cy = y + h for a lit bit (row h, column w)  *)
(* of the sprite with cx < 64 and cy < 32, and leaves every other cell as  *)
(* it was: nothing wraps to the next row or to the top.                    *)
C26_Clipping ==
    (Executed /\ ~OffGrid) =>
      /\ Alive /\ result.kind = "Ok"
      /\ Toggled = Covered

(* 15 rows at (57, 20): column 7 and rows 12..14 are cut off, and cells of *)
(* the right-hand column and of the bottom row are toggled.                *)
C26_Witness ==
    /\ Executed /\ OldVx = 57 /\ OldVy = 20 /\ FieldN(ins) = 15
    /\ SpriteBit(0, 7) = 1 /\ SpriteBit(12, 1) = 1
    /\ 20 * WIDTH + 63 \in Toggled
    /\ 31 * WIDTH + 57 \in Toggled
    /\ 21 * WIDTH \notin Toggled /\ 57 \notin Toggled


(***************************************************************************)
(* One ROM per instruction: LD V0, 4; LD V1, 5; then the instruction at    *)
(* 0x204, the last of the program.  A driver steps through it; key 5 is    *)
(* held down from the start or no key is.  One more ROM nests STACK_SIZE   *)
(* calls: the subroutine at 0x200 + 4k calls the one at 0x200 + 4(k + 1)   *)
(* and then returns.                                                       *)
(***************************************************************************)
InstrWords ==
    { \h0123, \h00E0, \h00EE, \h1ABC, \h1204, \h2300, \h3105, \h3106, \h4105,
      \h4106, \h5120, \h5110, \h6207, \h7103, \h8120, \h8121, \h8122, \h8123,
      \h8124, \h8125, \h8126, \h8127, \h812E, \h9120, \h9110, \hA123, \hB200,
      \hBFFF, \hC10F, \hD015, \hE19E, \hE1A1, \hF107, \hF10A, \hF115, \hF118,
      \hF11E, \hF129, \hF133, \hF155, \hF165, \h8008 }

InstrAddr == MEM_START + 4

NestedCalls ==
    [k \in 1..(2 * STACK_SIZE + 1) |->
       IF k = 2 * STACK_SIZE + 1 THEN \h00EE          \* innermost: RET
       ELSE IF k % 2 = 1 THEN \h2000 + MEM_START + 2 * (k + 1)  \* CALL next
       ELSE IF k = 2 THEN \h1FFF                      \* outermost: JP 0xFFF
       ELSE \h00EE]                                   \* RET

InstrRoms ==
    { WordsToBytes(<< \h6004, \h6105, w >>) : w \in InstrWords }
      \cup { WordsToBytes(NestedCalls) }

InitInstr ==
    /\ rom_data \in InstrRoms
    /\ overflow_checks = FALSE
    /\ \/ /\ emu = Emulator_new(rom_data).self
          /\ call = [name |-> "new"]
          /\ result = Emulator_new(rom_data).ret
       \/ /\ emu = key_press(Emulator_new(rom_data).self, 5)
          /\ call = [name |-> "key_press", key |-> 5]
          /\ result = Unit
    /\ fatal = FALSE
    /\ ins = 0
    /\ op = NotCalled
    /\ trail = << >>
    /\ driver = NoDriver

NextInstr == Step
SpecInstr == InitInstr /\ [][NextInstr]_vars

IsCLS(w) == w = \h00E0
IsDRW(w) == Family(w) = 13
LitCells(e) == { <<k % WIDTH, k \div WIDTH>> : k \in { j \in Cells : e.screen.pixels[j] = 1 } }

(* C22: a step() that returns Ok returns one of the four signals: Exit     *)
(* exactly when PC was outside the loaded program, WaitForKey exactly when *)
(* Fx0A was fetched with no key down, Draw exactly when CLS or DRW was     *)
(* fetched, Nop otherwise; Draw carries exactly the coordinates of the     *)
(* cells that are lit after the instruction, none after CLS.               *)
C22_Signal ==
    (StepReturns /\ result'.kind = "Ok") =>
      LET sig == result'.val.step
          w == WordAt(emu)
      IN  /\ sig \in {"Nop", "Draw", "WaitForKey", "Exit"}
          /\ sig = "Exit" <=> ~InProgram(emu)
          /\ sig = "WaitForKey" <=>
               (InProgram(emu) /\ IsLDKP(w) /\ KeysDown(emu) = {})
          /\ sig = "Draw" <=> (InProgram(emu) /\ (IsCLS(w) \/ IsDRW(w)))
          /\ sig = "Draw" =>
               /\ { <<p.x, p.y>> : p \in result'.val.pixels } = LitCells(emu')
               /\ \A p \in result'.val.pixels : p.x < WIDTH /\ p.y < HEIGHT
               /\ Cardinality(result'.val.pixels) = Cardinality(LitCells(emu'))
               /\ IsCLS(w) => result'.val.pixels = {}
C22_Signals == [][C22_Signal]_vars

(* DRW V0, V1, 5 drew the glyph of 0 at (4, 5): the signal names the cell  *)
(* (7, 9), the right end of its last row, and not (9, 7).                  *)
C22_Witness ==
    /\ Alive /\ call.name = "step" /\ result.kind = "Ok"
    /\ result.val.step = "Draw"
    /\ \E p \in result.val.pixels : p.x = 7 /\ p.y = 9
    /\ ~ \E p \in result.val.pixels : p.x = 9 /\ p.y = 7


(***************************************************************************)
(* Cxkk on a register file: the handler is dispatched with each byte the   *)
(* random source can yield.                                                *)
(***************************************************************************)
RndMasks == {\h00, \h01, \h0F, \h3C, \hF0, \hFF}

InitRND ==
    /\ overflow_checks = FALSE
    /\ \E kk \in RndMasks : Ready([vx |-> RegisterFile(\hC100 + kk, 0, 0)], \hC100 + kk)

ExecuteRandom ==
    /\ call.name = "ready"
    /\ \E r \in gen_range(0, U8 - 1) :
         LET decoded == interpret(ins)
             out == dispatch(emu, decoded.val, r)
         IN  /\ op' = decoded
             /\ emu' = out.self
             /\ result' = out.ret
    /\ call' = [name |-> "execute"]
    /\ trail' = << [emu |-> emu, ins |-> ins] >>
    /\ UNCHANGED <<rom_data, overflow_checks, fatal, ins, driver>>

NextRND == ExecuteRandom
SpecRND == InitRND /\ [][NextRND]_vars

(* The values Cxkk can leave in Vx from this state.                        *)
RndOutcomes ==
    { dispatch(emu, interpret(ins).val, r).self.vx[FieldX(ins)] :
        r \in gen_range(0, U8 - 1) }

(* C23: Cxkk leaves in Vx the value r AND kk for some byte r, so no bit    *)
(* outside kk is set; and every byte r in 0..255 can be drawn, so every v  *)
(* with v AND kk = v can be the result, 255 included when kk = 0xFF.       *)
C23_RandomByte ==
    /\ Executed =>
         /\ result = Ok(Nop)
         /\ BitAnd(emu.vx[FieldX(ins)], FieldKK(ins)) = emu.vx[FieldX(ins)]
    /\ call.name = "ready" =>
         \A v \in 0..(U8 - 1) :
           BitAnd(v, FieldKK(ins)) = v => v \in RndOutcomes


(***************************************************************************)
(* The driver loops: ui/gui start_loop, ui/tui start_loop and debugger     *)
(* start.  driver.running: the loop has not returned; driver.ended: some   *)
(* step() has returned Exit or an error; driver.late: a step() call was    *)
(* made after that.                                                        *)
(***************************************************************************)
DriverKinds == {"gui", "tui", "debugger"}

DriverRoms ==
    { WordsToBytes(p) :
        p \in { << >>, << \h8008 >>, << \h6105, \hF10A >>, << \h00E0, \h00EE >> } }

InitDriver ==
    /\ rom_data \in DriverRoms
    /\ overflow_checks \in BOOLEAN
    /\ emu = Emulator_new(rom_data).self
    /\ result = Emulator_new(rom_data).ret
    /\ call = [name |-> "new"]
    /\ fatal = FALSE
    /\ ins = 0
    /\ op = NotCalled
    /\ trail = << >>
    /\ \E kind \in DriverKinds :
         driver = [kind |-> kind, running |-> TRUE, ended |-> FALSE, late |-> FALSE]

Running(kind) == driver.kind = kind /\ driver.running /\ Alive

IsExit(ret) == ret = Ok(Exit)
IsFailure(ret) == ret.kind \in {"Err", "Panic"}

(* One emu.step() of a loop that returns on the results in stops.          *)
DriverStep(stops(_)) ==
    /\ \E r \in RandomDraws(emu) :
         LET out == step(emu, r)
         IN  /\ emu' = IF out.ret.kind = "Panic" THEN NoEmulator ELSE out.self
             /\ result' = out.ret
             /\ fatal' = (fatal \/ out.ret.kind = "Err")
             /\ driver' = [driver EXCEPT
                             !.running = ~stops(out.ret),
                             !.ended = @ \/ IsExit(out.ret) \/ IsFailure(out.ret),
                             !.late = @ \/ driver.ended]
    /\ call' = [name |-> "step"]
    /\ UNCHANGED <<rom_data, overflow_checks, ins, op, trail>>

Return_(ret) == driver' = [driver EXCEPT !.running = FALSE] /\ result' = ret

(* gui: one iteration of the for loop of Loop::Update returns on Exit and  *)
(* on Err.                                                                 *)
GuiStops(ret) == IsExit(ret) \/ IsFailure(ret)
GuiStep == Running("gui") /\ DriverStep(GuiStops)

(* gui: a Button event of a mapped key.                                    *)
GuiInput == Running("gui") /\ (KeyPress \/ KeyRelease)

(* gui: window.next() yields None and the loop ends.                       *)
GuiClose ==
    /\ Running("gui")
    /\ Return_(Unit)
    /\ UNCHANGED <<emu, rom_data, call, overflow_checks, fatal, ins, op, trail>>

(* tui: the ticker branch returns on Err only.                             *)
TuiStops(ret) == IsFailure(ret)
TuiTick == Running("tui") /\ DriverStep(TuiStops)

(* tui: the input branch.  Input::Quit returns; any other key goes to      *)
(* emu.send_input, which Emulator does not define: the Emulator is left    *)
(* as it is.                                                               *)
TuiQuit ==
    /\ Running("tui")
    /\ Return_(Unit)
    /\ UNCHANGED <<emu, rom_data, call, overflow_checks, fatal, ins, op, trail>>

TuiInput ==
    /\ Running("tui")
    /\ \E key \in Keys : call' = [name |-> "send_input", key |-> key]
    /\ result' = Unit
    /\ UNCHANGED <<emu, rom_data, overflow_checks, fatal, ins, op, trail, driver>>

(* debugger: every tick steps; the loop returns on Err only.               *)
DebuggerStops(ret) == IsFailure(ret)
DebuggerTick == Running("debugger") /\ DriverStep(DebuggerStops)

NextDriver ==
    \/ GuiStep \/ GuiInput \/ GuiClose
    \/ TuiTick \/ TuiQuit \/ TuiInput
    \/ DebuggerTick
SpecDriver == InitDriver /\ [][NextDriver]_vars

(* C24: no driver loop (gui, tui, debugger) calls step() again once a      *)
(* step() has returned Exit or an error.                                   *)
C24_DriversStop == driver.kind \in DriverKinds => ~driver.late


(* The stack entries below depth d are the same in e and f.                *)
SameBelow(e, f, d) == \A k \in 0..(d - 1) : e.stack[k] = f.stack[k]

(* C25: CALL pushes the address of the instruction after it and sets PC to *)
(* its target; RET pops the entry pushed last into PC; no other            *)
(* instruction touches the live entries.  So every live entry is the       *)
(* address just after a CALL, and in a properly nested sequence of up to   *)
(* 16 calls each RET resumes right after its matching CALL.                *)
C25_CallRet ==
    (StepReturns /\ result'.kind = "Ok" /\ InProgram(emu)) =>
      /\ Fetches(IsCALL) =>
           /\ emu'.sp = emu.sp + 1
           /\ emu'.stack[emu.sp] = emu.pc + 2
           /\ emu'.pc = FieldNNN(WordAt(emu))
           /\ SameBelow(emu, emu', emu.sp)
      /\ Fetches(IsRET) =>
           /\ emu'.sp = emu.sp - 1
           /\ emu'.pc = emu.stack[emu.sp - 1]
           /\ SameBelow(emu, emu', emu.sp - 1)
      /\ ~(Fetches(IsCALL) \/ Fetches(IsRET)) =>
           /\ emu'.sp = emu.sp
           /\ SameBelow(emu, emu', emu.sp)
C25_Lifo ==
    /\ [](Alive => \A k \in 0..(emu.sp - 1) :
                     /\ emu.stack[k] - 2 \in MEM_START..(emu.rom_end - 1)
                     /\ IsCALL(WordAt([emu EXCEPT !.pc = emu.stack[k] - 2])))
    /\ [][C25_CallRet]_vars

(* The innermost of 16 nested calls has just returned: 15 entries are      *)
(* live and PC is the RET that follows the sixteenth CALL.                 *)
C25_Witness ==
    /\ Alive /\ call.name = "step" /\ result = Ok(Nop)
    /\ rom_data = WordsToBytes(NestedCalls)
    /\ emu.sp = STACK_SIZE - 1
    /\ emu.pc = MEM_START + 4 * (STACK_SIZE - 1) + 2
    /\ emu.stack[STACK_SIZE - 1] = emu.pc
    /\ emu.stack[0] = MEM_START + 2


(* The processor is executing: it exists and its last step, if any,        *)
(* returned neither Exit nor an error.                                     *)
Executing ==
    /\ Alive /\ ~fatal
    /\ call.name \in {"new", "step", "key_press", "key_release"}
    /\ result.kind = "Ok"
    /\ result.val # Exit

(* C27: while the processor is executing, the program counter is within    *)
(* [512, 4096).                                                            *)
C27_PcInRange == Executing => emu.pc \in MEM_START..(MEM_SIZE - 1)


(* C28: memory bytes [0, 80) hold the glyph font in every state.           *)
C28_FontFixed ==
    Alive => \A a \in 0..(Len(FONT_SET) - 1) : emu.memory[a] = FONT_SET[a + 1]


(* Every instruction under key events: the one-instruction programs,       *)
(* stepped while keys go down and up in any order.                         *)
NextKeypad == Step \/ KeyPress \/ KeyRelease

SpecKeypad == InitInstr /\ [][NextKeypad]_vars

NotKeypad ==
    {"vx", "dt", "st", "i", "pc", "sp", "stack", "memory", "screen", "rom_end"}

(* C29: no step() changes a key state; key_press(k) sets key k only and    *)
(* key_release(k) clears key k only, and neither changes registers, I, PC, *)
(* stack, timers, memory or framebuffer.                                   *)
C29_KeypadStep ==
    /\ StepReturns => emu'.keyboard = emu.keyboard
    /\ (Alive /\ call'.name = "key_press") =>
         /\ KeysDown(emu') = KeysDown(emu) \union {call'.key}
         /\ SameFields(emu, emu', NotKeypad)
    /\ (Alive /\ call'.name = "key_release") =>
         /\ KeysDown(emu') = KeysDown(emu) \ {call'.key}
         /\ SameFields(emu, emu', NotKeypad)
C29_Keypad == [][C29_KeypadStep]_vars

(* A key has just been released while another key is still down, after an  *)
(* instruction was executed.                                               *)
C29_Witness ==
    /\ Alive /\ call.name = "key_release"
    /\ call.key \notin KeysDown(emu)
    /\ KeysDown(emu) # {}
    /\ emu.pc > MEM_START


IsSKP(w) == Family(w) = 14 /\ FieldKK(w) = \h9E
IsSKNP(w) == Family(w) = 14 /\ FieldKK(w) = \hA1

(* C30: the program counter after the instruction w executed at address a: *)
(* JP nnn leaves nnn; JP V0, nnn leaves nnn + V0; a skip leaves a + 4 when *)
(* its condition holds and a + 2 when not (SKP, SKNP for Vx below 16);     *)
(* CALL, RET and a key-wait with no key down are not constrained; every    *)
(* other instruction, SYS too, leaves a + 2.                               *)
C30_PcStep ==
    (StepReturns /\ InProgram(emu) /\ result'.kind = "Ok") =>
      LET a == emu.pc
          w == WordAt(emu)
          x == emu.vx[FieldX(w)]
          y == emu.vx[FieldY(w)]
          skip(taken) == emu'.pc = a + (IF taken THEN 4 ELSE 2)
      IN  CASE Family(w) = 1  -> emu'.pc = FieldNNN(w)
            [] Family(w) = 11 -> emu'.pc = FieldNNN(w) + emu.vx[0]
            [] Family(w) = 3  -> skip(x = FieldKK(w))
            [] Family(w) = 4  -> skip(x # FieldKK(w))
            [] Family(w) = 5  -> skip(x = y)
            [] Family(w) = 9  -> skip(x # y)
            [] IsSKP(w)       -> x \in 0..15 => skip(emu.keyboard[x])
            [] IsSKNP(w)      -> x \in 0..15 => skip(~emu.keyboard[x])
            [] IsCALL(w) \/ IsRET(w) -> TRUE
            [] IsLDKP(w) /\ KeysDown(emu) = {} -> TRUE
            [] OTHER          -> emu'.pc = a + 2
C30_PcUpdate == [][C30_PcStep]_vars

(* SKP V1 with V1 = 5 and key 5 held has just skipped: the instruction was *)
(* at InstrAddr and PC is four past it.                                    *)
C30_Witness ==
    /\ Alive /\ call.name = "step" /\ result = Ok(Nop)
    /\ emu.memory[InstrAddr] * 256 + emu.memory[InstrAddr + 1] = \hE19E
    /\ 5 \in KeysDown(emu)
    /\ emu.pc = InstrAddr + 4


-----------------------------------------------------------------------------
(* The tui loop with its input thread.  The thread turns keystrokes into   *)
(* Inputs and offers each to a channel of INPUT_CAPACITY slots with        *)
(* try_send; the loop selects between the channel and the ticker.          *)

INPUT_CAPACITY == 8
MaxTyped == INPUT_CAPACITY + 1
(* Inputs are numbered as the keys are; Quit is the one after KeyF.        *)
Quit == KEY_COUNT
Unexpected == [error |-> "Unexpected"]

(* What the user types: keys of the keypad alternating, or two keys with   *)
(* Esc between them.                                                       *)
Typed ==
    { [k \in 1..MaxTyped |-> KEY_COUNT - 1 - (k % 2)],
      << KEY_COUNT - 1, Quit, KEY_COUNT - 2 >> }

TuiRoms == { WordsToBytes(p) : p \in { << \h6105, \hF10A >>, << \h1200 >> } }

InitTui ==
    /\ rom_data \in TuiRoms
    /\ overflow_checks = FALSE
    /\ emu = Emulator_new(rom_data).self
    /\ result = Emulator_new(rom_data).ret
    /\ call = [name |-> "new"]
    /\ fatal = FALSE
    /\ ins = 0
    /\ op = NotCalled
    /\ trail = << >>
    /\ \E keys \in Typed :
         driver = [kind |-> "tui", running |-> TRUE, ended |-> FALSE, late |-> FALSE,
                   stdin |-> keys, open |-> TRUE, input_rx |-> << >>,
                   offered |-> << >>, received |-> << >>, overtaken |-> FALSE]

(* Input thread: the next keystroke becomes an Input and is offered with   *)
(* try_send; when the channel is full the error is logged and the Input is *)
(* gone.                                                                   *)
InputThreadSend ==
    /\ driver.kind = "tui" /\ driver.open
    /\ driver.stdin # << >>
    /\ LET i == Head(driver.stdin)
       IN  driver' = [driver EXCEPT
                        !.stdin = Tail(@),
                        !.offered = Append(@, i),
                        !.input_rx = IF Len(@) < INPUT_CAPACITY THEN Append(@, i) ELSE @]
    /\ UNCHANGED <<emu, rom_data, call, result, overflow_checks, fatal, ins, op, trail>>

(* Input thread: stdin.keys() ends, the thread returns and drops input_tx. *)
InputThreadEnd ==
    /\ driver.kind = "tui" /\ driver.open
    /\ driver.stdin = << >>
    /\ driver' = [driver EXCEPT !.open = FALSE]
    /\ UNCHANGED <<emu, rom_data, call, result, overflow_checks, fatal, ins, op, trail>>

(* select! takes the input branch when a message is ready.                 *)
TuiRecvQuit ==
    /\ Running("tui")
    /\ driver.input_rx # << >> /\ Head(driver.input_rx) = Quit
    /\ driver' = [driver EXCEPT !.running = FALSE, !.input_rx = Tail(@),
                                !.received = Append(@, Quit)]
    /\ result' = Unit
    /\ UNCHANGED <<emu, rom_data, call, overflow_checks, fatal, ins, op, trail>>

TuiRecvInput ==
    /\ Running("tui")
    /\ driver.input_rx # << >> /\ Head(driver.input_rx) # Quit
    /\ driver' = [driver EXCEPT !.input_rx = Tail(@),
                                !.received = Append(@, Head(driver.input_rx))]
    /\ call' = [name |-> "send_input", key |-> Head(driver.input_rx)]
    /\ result' = Unit
    /\ UNCHANGED <<emu, rom_data, overflow_checks, fatal, ins, op, trail>>

(* select! takes the input branch when the channel is empty and its sender *)
(* is gone: recv yields Err and the loop returns it.                       *)
TuiRecvError ==
    /\ Running("tui")
    /\ driver.input_rx = << >> /\ ~driver.open
    /\ driver' = [driver EXCEPT !.running = FALSE]
    /\ result' = Err(Unexpected)
    /\ UNCHANGED <<emu, rom_data, call, overflow_checks, fatal, ins, op, trail>>

(* select! takes the ticker branch; when both branches are ready it takes  *)
(* either, so a tick can be served while Inputs wait in the channel.       *)
TuiSelectTick ==
    /\ Running("tui")
    /\ \E r \in RandomDraws(emu) :
         LET out == step(emu, r)
         IN  /\ emu' = IF out.ret.kind = "Panic" THEN NoEmulator ELSE out.self
             /\ result' = out.ret
             /\ fatal' = (fatal \/ out.ret.kind = "Err")
             /\ driver' = [driver EXCEPT
                             !.running = ~TuiStops(out.ret),
                             !.ended = @ \/ IsExit(out.ret) \/ IsFailure(out.ret),
                             !.late = @ \/ driver.ended,
                             !.overtaken = @ \/ driver.input_rx # << >>]
    /\ call' = [name |-> "step"]
    /\ UNCHANGED <<rom_data, overflow_checks, ins, op, trail>>

NextTui ==
    \/ InputThreadSend \/ InputThreadEnd
    \/ TuiRecvQuit \/ TuiRecvInput \/ TuiRecvError
    \/ TuiSelectTick

SpecTui == InitTui /\ [][NextTui]_vars

IsPrefix(s, t) == Len(s) <= Len(t) /\ \A k \in 1..Len(s) : s[k] = t[k]

(* C31: every Input the input thread produced is either already received   *)
(* by the loop or still in the channel, in the order produced, and no      *)
(* step() has run while an Input was waiting in the channel.               *)
C31_KeyDelivery ==
    driver.kind = "tui" =>
      /\ driver.received \o driver.input_rx = driver.offered
      /\ ~driver.overtaken

(* The parts of C31 taken one at a time.                                   *)
C31_NoneDropped ==
    driver.kind = "tui" => Len(driver.received) + Len(driver.input_rx) = Len(driver.offered)
C31_InOrder ==
    driver.kind = "tui" => IsPrefix(driver.received, driver.offered)
C31_NoStepWhileQueued ==
    driver.kind = "tui" => ~driver.overtaken


-----------------------------------------------------------------------------
(* Programs that drive I to the end of memory and past its width: I at     *)
(* 0xFFD and at 0xFFF before a BCD store, a block store, a block load and  *)
(* a draw; the glyph address of digits 63 and 64; and 0xFF added to I      *)
(* until it passes 16 bits.                                                *)
BoundsRoms ==
    LET adds == (U16 - \hFFF) \div \hFF + 1
    IN  { WordsToBytes(<< a, \h60FF, w >>) :
            a \in {\hAFFD, \hAFFF}, w \in {\hF033, \hF255, \hF265, \hD005} }
        \union { WordsToBytes(<< \h603F, \hF029 >>), WordsToBytes(<< \h6040, \hF029 >>),
                 WordsToBytes(<< \hAFFF, \h60FF >> \o [k \in 1..adds |-> \hF01E]) }

InitBounds ==
    /\ rom_data \in BoundsRoms
    /\ overflow_checks \in BOOLEAN
    /\ emu = Emulator_new(rom_data).self
    /\ result = Emulator_new(rom_data).ret
    /\ call = [name |-> "new"]
    /\ fatal = FALSE
    /\ ins = 0
    /\ op = NotCalled
    /\ trail = << >>
    /\ driver = NoDriver

SpecBounds == InitBounds /\ [][NextInstr]_vars

IsLDIB(w) == Family(w) = 15 /\ FieldKK(w) = \h33
IsADDI(w) == Family(w) = 15 /\ FieldKK(w) = \h1E
IsLDIS(w) == Family(w) = 15 /\ FieldKK(w) = \h29

(* The instruction about to be executed stays inside memory when it goes   *)
(* through I, and its address arithmetic fits its width.                   *)
C32_InBounds ==
    (Alive /\ call'.name = "step" /\ InProgram(emu)) =>
      LET w == WordAt(emu)
          x == FieldX(w)
      IN  /\ IsDRW(w) => emu.i + FieldN(w) <= MEM_SIZE
          /\ IsLDIB(w) => emu.i + 2 < MEM_SIZE
          /\ (IsLDIR(w) \/ IsLDIM(w)) => emu.i + x < MEM_SIZE
          /\ IsADDI(w) => emu.i + emu.vx[x] < U16
          /\ IsLDIS(w) => emu.vx[x] * 4 < U8

(* The parts of C32 taken one at a time.                                   *)
C32_NoPanic == call.name = "step" => result.kind \in {"Ok", "Err"}
C32_AccessInBounds == [][C32_InBounds]_vars

(* C32: every step() completes with a signal or a declared error, no       *)
(* instruction reads or writes memory outside [0, 4096) through I, and     *)
(* the arithmetic of ADD I, Vx and of the glyph address never overflows.   *)
C32_StepCompletes == []C32_NoPanic /\ [][C32_InBounds]_vars

=============================================================================
